---- MODULE Spec2Model ----
(***************************************************************************)
(* Model of the web-automation agents of simulatedev:                      *)
(*   src/agents/web_agent.py          WebAgent (base class)                *)
(*   src/agents/openai_codex_agent.py OpenAICodexAgent (subclass)          *)
(*                                                                         *)
(* The agent is one sequential (cooperative, single control flow) program. *)
(* The browser page is the environment: every engine call (selector wait,  *)
(* query, click, fill, ...) draws its outcome with \E.                     *)
(*                                                                         *)
(* Time is counted in seconds (1000 ms of the source = 1).                 *)
(***************************************************************************)
EXTENDS Integers, Sequences, FiniteSets, TLC

(***************************************************************************)
(* Program constants (WebAutomationConfig and literals of the source).     *)
(***************************************************************************)
RETRY_COUNT == 3
\* _wait_for_completion: timeout=30000 for the stop button to appear,
\* timeout=1200000 for it to become hidden
STOP_APPEAR_TIMEOUT == 30
STOP_HIDDEN_TIMEOUT == 1200
\* _monitor_output_changes: check_interval_ms, stable_content_duration_ms and
\* the length the content must exceed
CHECK_INTERVAL == 5
STABLE_CONTENT_DURATION == 10
OUTPUT_MIN_LENGTH == 100
\* GoogleSelectors: every selector list has four alternatives
SELECTOR_COUNT == 4
\* _wait_for_login_completion: max_wait_seconds and poll_interval_ms
LOGIN_MAX_WAIT == 300
LOGIN_POLL_INTERVAL == 5

(***************************************************************************)
(* Bounds of the model.                                                    *)
(***************************************************************************)
\* largest explicit max_retries argument a direct caller passes (0 = None)
MaxRetriesArg == 4
\* seconds that pass in one step of the clock while a selector wait is pending
TickSeconds == 10
\* config.agent_timeout_seconds, the timeout of _wait_for_web_completion
AgentTimeoutSeconds == 20
\* most seconds by which a wait_for_timeout may overrun
MaxJitter == 1
\* most pages that are open in the browser at once
MaxOpenPages == 2

VARIABLES
  kind,             \* "web": a WebAgent subclass overriding nothing but the
                    \* abstract selectors; "codex": OpenAICodexAgent
  botright_client,  \* self.botright_client is not None
  browser,          \* self.browser is not None
  page,             \* self.page is not None
  open_pages,       \* the pages that new_page() made and nothing closed
  is_browser_ready, \* self._is_browser_ready
  repo_url,         \* self.repo_url, a string (empty: unset)
  authenticated,    \* the page is on the authenticated landing surface
  workspaceSelected,\* a workspace was confirmed with "Use this" on the page
  pc,               \* position of the control flow ("idle": no call running)
  r,                \* the running _robust_* call (locals and bookkeeping)
  o,                \* the steps of the latest open_coding_interface call
  w,                \* the running _wait_for_completion call
  stop_visible,     \* the page shows the stop button (the busy indicator)
  loading_selector, \* the agent's loading_selector property is not None
  m,                \* the running _wait_for_web_completion call
  ret,              \* what the latest public call returned
  a,                \* the running _handle_authentication call
  e                 \* the running _handle_environments_page call

fieldVars == <<botright_client, browser, page, open_pages, is_browser_ready>>
sessionVars == <<authenticated, workspaceSelected>>
waitVars == <<w, stop_visible, m>>
flowVars == <<a, e>>
agentVars == <<kind, loading_selector, botright_client, browser, page, open_pages,
               is_browser_ready, repo_url, authenticated, workspaceSelected,
               o, ret, a, e>>
vars == <<kind, loading_selector, botright_client, browser, page, open_pages,
          is_browser_ready, repo_url, authenticated, workspaceSelected,
          pc, r, o, w, stop_visible, m, ret, a, e>>

Kinds == {"web", "codex"}

(***************************************************************************)
(* Strings.  A string is a sequence of tokens; a token is a run of         *)
(* characters that the patterns of the source never split: the literal     *)
(* "github.com", the separators "/" and ":", the "." and the "git" of a    *)
(* ".git" suffix, and words.  "notgithub.com" is <<"not", "github.com">>.  *)
(***************************************************************************)
NameTokens == {"github.com", "gitlab.com", "not", "acme", "widget", "my-lib",
               ".", "git"}
Tokens == NameTokens \cup {"https:", "git@", "/", ":"}

\* the character class [\w\-\.] of the pattern of _extract_repo_name
NameChar(t) == t \in NameTokens

\* s[lo..hi], empty when lo > hi
Slice(s, lo, hi) == [i \in 1..(hi - lo + 1) |-> s[lo + i - 1]]

\* what "(?:\.git)?/?$" matches
RepoTails == {<<>>, <<"/">>, <<".", "git">>, <<".", "git", "/">>}

\* the pattern 'github\.com[/:]([\w\-\.]+)/([\w\-\.]+?)(?:\.git)?/?$' matched
\* with its first character at position i of u: j is the position of the
\* "/" that ends the (greedy) owner group, k the last position of the
\* (lazy) repository group
MatchEnds(u, i) ==
  {jk \in (1..Len(u)) \X (1..Len(u)) :
     LET j == jk[1]
         k == jk[2]
     IN  /\ i + 1 <= Len(u)
         /\ u[i] = "github.com"
         /\ u[i + 1] \in {"/", ":"}
         /\ j > i + 2
         /\ \A x \in (i + 2)..(j - 1) : NameChar(u[x])
         /\ u[j] = "/"
         /\ k > j
         /\ \A x \in (j + 1)..k : NameChar(u[x])
         /\ Slice(u, k + 1, Len(u)) \in RepoTails}

\* re.search: the leftmost position at which the pattern matches; there the
\* lazy repository group takes the shortest run that lets the rest match
ExtractRepoName(url) ==
  LET starts == {i \in 1..Len(url) : MatchEnds(url, i) # {}}
  IN  IF url = <<>> \/ starts = {}
        THEN <<>>
        ELSE LET i  == CHOOSE x \in starts : \A y \in starts : x <= y
                 jk == CHOOSE x \in MatchEnds(url, i) :
                         \A y \in MatchEnds(url, i) : x[2] <= y[2]
             IN  Slice(url, i + 2, jk[1] - 1) \o <<"/">>
                   \o Slice(url, jk[1] + 1, jk[2])

\* repo_name.split('/')[-1] if '/' in repo_name else repo_name
RepoOnly(repo_name) ==
  LET slashes == {i \in 1..Len(repo_name) : repo_name[i] = "/"}
  IN  IF slashes = {} THEN repo_name
      ELSE LET last == CHOOSE x \in slashes : \A y \in slashes : y <= x
           IN  Slice(repo_name, last + 1, Len(repo_name))

\* Python's "needle in haystack" and the has-text / :text selector engines:
\* the needle occurs in the haystack (the empty needle occurs in any text)
Contains(haystack, needle) ==
  \E at \in 1..(Len(haystack) + 1) :
     /\ at + Len(needle) - 1 <= Len(haystack)
     /\ Slice(haystack, at, at + Len(needle) - 1) = needle

(***************************************************************************)
(* _robust_click_element / _robust_fill_input / _robust_navigate           *)
(*                                                                         *)
(* r.pc          position inside the call ("none": no call)                *)
(* r.op          "click" | "fill" | "nav"                                  *)
(* r.arg         the max_retries argument (0 stands for None or 0)         *)
(* r.max_retries the local max_retries after "max_retries or RETRY_COUNT"  *)
(* r.attempt     the loop variable of "for attempt in range(max_retries)"  *)
(* r.res         the returned value, once r.pc = "done"                    *)
(* bookkeeping: r.tries attempts begun, r.waits retry delays waited,       *)
(* r.read the read-back of the current fill attempt, r.cause why the       *)
(* current attempt failed, r.act what the actionability test of the        *)
(* current attempt saw ("yes": visible and enabled, "no", "none": not      *)
(* tested).                                                                *)
(***************************************************************************)
RIdle == [pc |-> "none", op |-> "none", arg |-> 0, max_retries |-> 0,
          attempt |-> 0, res |-> FALSE, tries |-> 0, waits |-> 0,
          read |-> "none", cause |-> "none", act |-> "none"]

\* (mutant) the argument is ignored: max_retries = self.config.RETRY_COUNT
EffectiveRetriesIgnoringArg(arg) == RETRY_COUNT

\* max_retries = max_retries or self.config.RETRY_COUNT
EffectiveRetries(arg) == IF arg = 0 THEN RETRY_COUNT ELSE arg

\* the state in which a caller leaves r when it calls a _robust_* method
RCall(op, arg) == [RIdle EXCEPT !.pc = "entry", !.op = op, !.arg = arg,
                                !.max_retries = EffectiveRetries(arg)]

\* (mutant) the handler goes round again without a page
RetryAgainWithoutPage(attempt, max_retries, pg) == attempt < max_retries - 1

\* (mutant) the handler gives up one attempt early
RetryAgainOneShort(attempt, max_retries, pg) ==
  attempt < max_retries - 2 /\ pg

\* except-handler test: "if attempt < max_retries - 1 and self.page"
RetryAgain(attempt, max_retries, pg) == attempt < max_retries - 1 /\ pg

RRaise(cause) == r' = [r EXCEPT !.pc = "except", !.cause = cause]
RReturn(b)    == r' = [r EXCEPT !.pc = "done", !.res = b]
RGoto(l)      == r' = [r EXCEPT !.pc = l]

\* _robust_navigate alone tests the page before its loop (lines 470-472)
REntry ==
  /\ r.pc = "entry"
  /\ IF r.op = "nav" /\ ~page THEN RReturn(FALSE) ELSE RGoto("loop")
  /\ UNCHANGED <<agentVars, waitVars, pc>>

\* for attempt in range(max_retries): ... ; after the loop: return False
RLoop ==
  /\ r.pc = "loop"
  /\ IF r.attempt < r.max_retries
       THEN r' = [r EXCEPT !.pc = IF r.op = "nav" THEN "goto" ELSE "page",
                           !.tries = r.tries + 1,
                           !.read = "none", !.cause = "none",
                           !.act = "none"]
       ELSE RReturn(FALSE)
  /\ UNCHANGED <<agentVars, waitVars, pc>>

\* if not self.page: raise Exception("Page not available")
RPage ==
  /\ r.pc = "page"
  /\ IF page THEN RGoto("wait") ELSE RRaise("nopage")
  /\ UNCHANGED <<agentVars, waitVars, pc>>

\* await self.page.wait_for_selector(selector, state="visible", timeout=...)
RWaitSelector ==
  /\ r.pc = "wait"
  /\ \E found \in BOOLEAN : IF found THEN RGoto("query") ELSE RRaise("timeout")
  /\ UNCHANGED <<agentVars, waitVars, pc>>

\* element = await self.page.query_selector(selector); if not element: raise
RQuerySelector ==
  /\ r.pc = "query"
  /\ \E element \in BOOLEAN :
       IF element THEN RGoto("actionable") ELSE RRaise("notfound")
  /\ UNCHANGED <<agentVars, waitVars, pc>>

\* (mutant) a visible element is used whether enabled or not
ActionableVisibleOnly(visible, enabled) == visible

\* lines 542, 581: "await element.is_visible() and await element.is_enabled()"
Actionable(visible, enabled) == visible /\ enabled

\* the first step on an actionable element: lines 543 (click:
\* scroll_into_view_if_needed) and 583 (fill: focus)
AfterActionable(op) == IF op = "click" THEN "scroll" ELSE "focus"

\* (mutant) the text is set without clearing the field
AfterFocusNoClear == "fill"

\* lines 585-586: after focus(), select_text() begins the clearing
AfterFocus == "select"

\* if await element.is_visible() and await element.is_enabled(): ... else: raise
RActionable ==
  /\ r.pc = "actionable"
  /\ \E visible \in BOOLEAN, enabled \in BOOLEAN :
       IF Actionable(visible, enabled)
         THEN r' = [r EXCEPT !.pc = AfterActionable(r.op),
                             !.act = IF visible /\ enabled THEN "yes" ELSE "no"]
         ELSE r' = [r EXCEPT !.pc = "except", !.cause = "notactionable",
                             !.act = IF visible /\ enabled THEN "yes" ELSE "no"]
  /\ UNCHANGED <<agentVars, waitVars, pc>>

\* await element.scroll_into_view_if_needed()
RScroll ==
  /\ r.pc = "scroll"
  /\ \E ok \in BOOLEAN : IF ok THEN RGoto("stable") ELSE RRaise("engine")
  /\ UNCHANGED <<agentVars, waitVars, pc>>

\* await self.page.wait_for_timeout(ELEMENT_STABILITY_TIMEOUT)
RStabilize ==
  /\ r.pc = "stable"
  /\ RGoto("click")
  /\ UNCHANGED <<agentVars, waitVars, pc>>

\* await element.click(); return True
RClick ==
  /\ r.pc = "click"
  /\ \E ok \in BOOLEAN : IF ok THEN RReturn(TRUE) ELSE RRaise("engine")
  /\ UNCHANGED <<agentVars, waitVars, pc>>

\* await input_element.focus()
RFocus ==
  /\ r.pc = "focus"
  /\ \E ok \in BOOLEAN : IF ok THEN RGoto(AfterFocus) ELSE RRaise("engine")
  /\ UNCHANGED <<agentVars, waitVars, pc>>

\* await input_element.select_text()
RSelectText ==
  /\ r.pc = "select"
  /\ \E ok \in BOOLEAN : IF ok THEN RGoto("delete") ELSE RRaise("engine")
  /\ UNCHANGED <<agentVars, waitVars, pc>>

\* await self.page.keyboard.press("Delete")
RDelete ==
  /\ r.pc = "delete"
  /\ \E ok \in BOOLEAN : IF ok THEN RGoto("fill") ELSE RRaise("engine")
  /\ UNCHANGED <<agentVars, waitVars, pc>>

\* await input_element.fill(text)
RFillText ==
  /\ r.pc = "fill"
  /\ \E ok \in BOOLEAN : IF ok THEN RGoto("read") ELSE RRaise("engine")
  /\ UNCHANGED <<agentVars, waitVars, pc>>

\* current_value = await input_element.input_value()
RInputValue ==
  /\ r.pc = "read"
  /\ \E v \in {"match", "mismatch", "raise"} :
       IF v = "raise" THEN RRaise("engine")
       ELSE r' = [r EXCEPT !.pc = "compare", !.read = v]
  /\ UNCHANGED <<agentVars, waitVars, pc>>

\* if current_value == text: return True  else: raise Exception(...)
RCompare ==
  /\ r.pc = "compare"
  /\ IF r.read = "match" THEN RReturn(TRUE) ELSE RRaise("mismatch")
  /\ UNCHANGED <<agentVars, waitVars, pc>>

\* await self.page.goto(url, wait_until="networkidle", timeout=LONG_TIMEOUT)
RNavigate ==
  /\ r.pc = "goto"
  /\ \E ok \in BOOLEAN : IF ok THEN RReturn(TRUE) ELSE RRaise("engine")
  /\ UNCHANGED <<agentVars, waitVars, pc>>

\* (mutant) the retry delay is waited after every failed attempt
DelaysWaitedAlways(waits, again) == waits + 1

\* lines 557-558 (481-482, 603-604): wait_for_timeout(RETRY_DELAY) is
\* awaited in the branch that goes round again, and only there
DelaysWaited(waits, again) == IF again THEN waits + 1 ELSE waits

\* except Exception: wait RETRY_DELAY and go round again, or return False
RExcept ==
  /\ r.pc = "except"
  /\ LET again == RetryAgain(r.attempt, r.max_retries, page) IN
       r' = IF again
              THEN [r EXCEPT !.pc = "loop", !.attempt = r.attempt + 1,
                             !.waits = DelaysWaited(r.waits, again)]
              ELSE [r EXCEPT !.pc = "done", !.res = FALSE,
                             !.waits = DelaysWaited(r.waits, again)]
  /\ UNCHANGED <<agentVars, waitVars, pc>>

(***************************************************************************)
(* A direct call of a _robust_* method, with any max_retries argument.     *)
(***************************************************************************)
DirectCall ==
  /\ pc = "idle"
  /\ \E op \in {"click", "fill", "nav"}, arg \in 0..MaxRetriesArg :
       r' = RCall(op, arg)
  /\ pc' = "direct"
  /\ UNCHANGED <<agentVars, waitVars>>

DirectReturn ==
  /\ pc = "direct" /\ r.pc = "done"
  /\ pc' = "idle"
  /\ r' = RIdle
  /\ UNCHANGED <<agentVars, waitVars>>

(***************************************************************************)
(* OpenAICodexAgent._handle_authentication and WebAgent.handle_google_login*)
(*                                                                         *)
(* a.pc     position inside the call ("none": no call)                     *)
(* a.url    the local current_url, by the marker it contains:              *)
(*          "login" 'auth/login', "openai" 'auth.openai.com', "google"     *)
(*          'accounts.google.com', "envs" the environments page,           *)
(*          "create" the environment creation page, "other" none of them   *)
(* a.list, a.sel  the selector list handle_google_login is working on and  *)
(*          the index of the selector tried in it                          *)
(* a.elapsed  elapsed_ms of _wait_for_login_completion, in seconds         *)
(* a.gres   what handle_google_login returned; a.res what the call returned*)
(* bookkeeping: a.hops the hops entered, in order; a.called a _robust_*    *)
(* call was made, a.waited a wait was made, a.creds the credentials were   *)
(* read; a.failed the control that could not be acted on; a.entry_envs the *)
(* call found the page on the environments page (or its creation page);    *)
(* a.missing a credential was not set in the environment; a.polled the URL *)
(* the latest poll of _wait_for_login_completion read ("raise": the poll   *)
(* raised); a.expired the loop of _wait_for_login_completion ran out.      *)
(* a.elapsed is elapsed_ms in seconds and ends with the call whose local   *)
(* it is.                                                                  *)
(***************************************************************************)
Urls == {"login", "openai", "google", "envs", "create", "other"}

ANone == [pc |-> "none", url |-> "other", list |-> "none", sel |-> 0,
          elapsed |-> 0, gres |-> FALSE, res |-> FALSE,
          hops |-> <<>>, called |-> FALSE, waited |-> FALSE, creds |-> FALSE,
          failed |-> "none", entry_envs |-> FALSE, missing |-> FALSE,
          polled |-> "none", expired |-> FALSE]

\* the state in which the caller leaves a when it calls _handle_authentication
ACall == [ANone EXCEPT !.pc = "start"]

\* (mutant) only the list page is recognised
IsEnvironmentsListPage(url) == url = "envs"

\* _is_environments_page: 'chatgpt.com/codex/settings/environment' in url
IsEnvironmentsPage(url) == url \in {"envs", "create"}

AReturn(b) == [a EXCEPT !.pc = "done", !.res = b]

\* everything but a and r
authFrame == <<kind, loading_selector, botright_client, browser, page, open_pages,
               is_browser_ready, repo_url, authenticated, workspaceSelected,
               pc, o, w, stop_visible, m, ret, e>>

\* lines 149-153: current_url = self.page.url (an AttributeError without a
\* page); already on the environments page: return True
HandleAuthentication ==
  /\ a.pc = "start"
  /\ IF ~page
       THEN a' = AReturn(FALSE)
       ELSE \E u \in Urls :
              a' = IF IsEnvironmentsPage(u)
                     THEN [AReturn(TRUE) EXCEPT
                             !.url = u, !.entry_envs = u \in {"envs", "create"}]
                     ELSE [a EXCEPT !.pc = "login_check", !.url = u,
                                    !.entry_envs = u \in {"envs", "create"}]
  /\ UNCHANGED <<authFrame, r>>

\* line 156: if 'auth/login' in current_url or await self._is_login_page():
\* click the login button
AuthLoginCheck ==
  /\ a.pc = "login_check"
  /\ \E is_login_page \in BOOLEAN :
       IF a.url = "login" \/ is_login_page
         THEN /\ a' = [a EXCEPT !.pc = "login_click",
                                !.hops = Append(a.hops, "login"),
                                !.called = TRUE]
              /\ r' = RCall("click", 0)
         ELSE /\ a' = [a EXCEPT !.pc = "openai_check"]
              /\ UNCHANGED r
  /\ UNCHANGED authFrame

\* after a hop's click: "if not await self._click_element(...): return
\* False"; else wait_for_timeout(3000) (it may raise) and read the URL again
AfterHopClick(hop, next) ==
  /\ r.pc = "done"
  /\ r' = RIdle
  /\ IF r.res
       THEN \E u \in Urls \cup {"raise"} :
              a' = IF u = "raise"
                     THEN [AReturn(FALSE) EXCEPT !.waited = TRUE]
                     ELSE [a EXCEPT !.pc = next, !.url = u,
                                    !.waited = TRUE]
       ELSE a' = [AReturn(FALSE) EXCEPT !.failed = hop]
  /\ UNCHANGED authFrame

\* lines 158-161
AuthLoginClicked ==
  /\ a.pc = "login_click"
  /\ AfterHopClick("login", "openai_check")

\* line 164: if 'auth.openai.com' in current_url: click "Continue with Google"
AuthOpenAICheck ==
  /\ a.pc = "openai_check"
  /\ IF a.url = "openai"
       THEN /\ a' = [a EXCEPT !.pc = "openai_click",
                              !.hops = Append(a.hops, "openai"),
                              !.called = TRUE]
            /\ r' = RCall("click", 0)
       ELSE /\ a' = [a EXCEPT !.pc = "google_check"]
            /\ UNCHANGED r
  /\ UNCHANGED authFrame

\* lines 165-168
AuthOpenAIClicked ==
  /\ a.pc = "openai_click"
  /\ AfterHopClick("openai", "google_check")

\* line 171: if 'accounts.google.com' in current_url: handle_google_login()
AuthGoogleCheck ==
  /\ a.pc = "google_check"
  /\ a' = IF a.url = "google"
            THEN [a EXCEPT !.pc = "g_creds", !.hops = Append(a.hops, "google")]
            ELSE [a EXCEPT !.pc = "verify"]
  /\ UNCHANGED <<authFrame, r>>

\* handle_google_login returns b
GReturn(x, b) == [x EXCEPT !.pc = "g_ret", !.gres = b]

\* "for selector in selectors:" begins on one of the four selector lists
StartList(x, l) == [x EXCEPT !.pc = "sel_query", !.list = l, !.sel = 1]

\* the _robust_* method a selector list is used with
ListOp(l) == IF l \in {"email", "password"} THEN "fill" ELSE "click"

\* handle_google_login, lines 397-427: what follows the result b of the
\* _robust_*_from_selectors call on list x.list
AfterList(x, b) ==
  CASE x.list = "email" ->
         IF b THEN StartList(x, "email_next")
              ELSE StartList([x EXCEPT !.failed = "email"], "password")
    [] x.list = "email_next" ->
         IF b /\ page THEN [x EXCEPT !.pc = "g_idle2"]
                      ELSE StartList(x, "password")
    [] x.list = "password" ->
         IF b THEN StartList(x, "submit")
              ELSE GReturn([x EXCEPT !.failed = "password"], FALSE)
    [] OTHER ->
         IF b THEN [x EXCEPT !.pc = "lc_start"]
              ELSE GReturn([x EXCEPT !.failed = "submit"], FALSE)

\* (mutant) one credential is enough to go on
CredentialsMissingBoth(google_email, google_password) ==
  ~google_email /\ ~google_password

\* line 382: "if not google_email or not google_password:" (TRUE stands for
\* a value that is set and not empty)
CredentialsMissing(google_email, google_password) ==
  ~google_email \/ ~google_password

\* lines 379-384: os.getenv('GOOGLE_EMAIL'), os.getenv('GOOGLE_PASSWORD');
\* "if not google_email or not google_password: return False"
GoogleCredentials ==
  /\ a.pc = "g_creds"
  /\ \E google_email \in BOOLEAN, google_password \in BOOLEAN :
       LET x == [a EXCEPT !.creds = TRUE,
                          !.missing = ~(google_email /\ google_password)] IN
         a' = IF CredentialsMissing(google_email, google_password)
                THEN GReturn(x, FALSE)
                ELSE [x EXCEPT !.pc = "g_idle1"]
  /\ UNCHANGED <<authFrame, r>>

\* lines 387-388 and 404-406: "if self.page: await
\* self.page.wait_for_load_state("networkidle")"; its timeout is an
\* exception, which "except Exception" turns into return False
GoogleWaitIdle ==
  /\ a.pc \in {"g_idle1", "g_idle2"}
  /\ LET next == IF a.pc = "g_idle1" THEN "email" ELSE "password" IN
       IF page
         THEN \E idle \in BOOLEAN :
                a' = IF idle
                       THEN StartList([a EXCEPT !.waited = TRUE], next)
                       ELSE GReturn([a EXCEPT !.waited = TRUE], FALSE)
         ELSE a' = StartList(a, next)
  /\ UNCHANGED <<authFrame, r>>

\* (mutant) the selector after the next is taken
NextSelectorSkipping(i) == i + 2

\* lines 612, 633: "for selector in selectors:" goes to the next of the list
NextSelector(i) == i + 1

\* _robust_fill_input_from_selectors / _robust_click_from_selectors, one
\* round of "for selector in selectors": without a page: continue; the
\* element is queried and tested (visible, for a click also enabled; the
\* calls may raise: continue); a usable element: the _robust_* call.  After
\* the last selector: return False
SelectorQuery ==
  /\ a.pc = "sel_query"
  /\ IF a.sel > SELECTOR_COUNT
       THEN a' = AfterList(a, FALSE) /\ UNCHANGED r
       ELSE IF ~page
         THEN a' = [a EXCEPT !.sel = NextSelector(a.sel)] /\ UNCHANGED r
         ELSE \E out \in {"usable", "unusable", "raise"} :
                IF out = "usable"
                  THEN /\ a' = [a EXCEPT !.pc = "sel_call",
                                         !.called = TRUE]
                       /\ r' = RCall(ListOp(a.list), 0)
                  ELSE /\ a' = [a EXCEPT !.sel = NextSelector(a.sel)]
                       /\ UNCHANGED r
  /\ UNCHANGED authFrame

\* "success = await self._robust_fill_input(selector, text)
\*  if success: return True", else the next selector
SelectorCalled ==
  /\ a.pc = "sel_call" /\ r.pc = "done"
  /\ r' = RIdle
  /\ a' = IF r.res THEN AfterList(a, TRUE)
                   ELSE [a EXCEPT !.pc = "sel_query",
                                  !.sel = NextSelector(a.sel)]
  /\ UNCHANGED authFrame

\* _wait_for_login_completion, lines 655-660
WaitForLoginCompletion ==
  /\ a.pc = "lc_start"
  /\ a' = IF page THEN [a EXCEPT !.pc = "lc_loop", !.elapsed = 0]
                  ELSE GReturn(a, FALSE)
  /\ UNCHANGED <<authFrame, r>>

\* (mutant) only the environments page ends the wait
LoginDoneOnEnvironments(url) == url = "envs"

\* line 668: "if 'accounts.google.com' not in current_url:"
LoginDone(url) == url # "google"

\* lines 663-675: while elapsed_ms < max_wait_ms: wait poll_interval_ms,
\* elapsed_ms += poll_interval_ms, return True when the URL is no longer the
\* provider's; after the loop return False (so does an exception)
LoginPoll ==
  /\ a.pc = "lc_loop"
  /\ IF a.elapsed < LOGIN_MAX_WAIT
       THEN \E u \in Urls \cup {"raise"} :
              LET x == [a EXCEPT !.waited = TRUE, !.polled = u] IN
                a' = IF u = "raise"
                       THEN GReturn([x EXCEPT !.elapsed = 0], FALSE)
                       ELSE IF LoginDone(u)
                         THEN GReturn([x EXCEPT !.elapsed = 0], TRUE)
                         ELSE [x EXCEPT !.elapsed = a.elapsed
                                                      + LOGIN_POLL_INTERVAL]
       ELSE a' = GReturn([a EXCEPT !.elapsed = 0, !.expired = TRUE], FALSE)
  /\ UNCHANGED <<authFrame, r>>

\* lines 172-174: "if not await self.handle_google_login(): return False";
\* else wait_for_timeout(5000) (it may raise); what the login that has
\* returned read and how its loop ended is forgotten
AuthGoogleReturned ==
  /\ a.pc = "g_ret"
  /\ LET x == [a EXCEPT !.polled = "none", !.expired = FALSE] IN
       IF a.gres
         THEN \E ok \in BOOLEAN :
                a' = IF ok THEN [x EXCEPT !.pc = "verify", !.waited = TRUE]
                           ELSE [x EXCEPT !.pc = "done", !.res = FALSE,
                                          !.waited = TRUE]
         ELSE a' = [x EXCEPT !.pc = "done", !.res = FALSE]
  /\ UNCHANGED <<authFrame, r>>

\* line 177: return self._is_environments_page(self.page.url)
AuthVerify ==
  /\ a.pc = "verify"
  /\ \E u \in Urls : a' = [AReturn(IsEnvironmentsPage(u)) EXCEPT !.url = u]
  /\ UNCHANGED <<authFrame, r>>

Authentication ==
  \/ HandleAuthentication \/ AuthLoginCheck \/ AuthLoginClicked
  \/ AuthOpenAICheck \/ AuthOpenAIClicked \/ AuthGoogleCheck
  \/ GoogleCredentials \/ GoogleWaitIdle \/ SelectorQuery \/ SelectorCalled
  \/ WaitForLoginCompletion \/ LoginPoll \/ AuthGoogleReturned \/ AuthVerify

(***************************************************************************)
(* OpenAICodexAgent._handle_environments_page,                             *)
(* _find_and_select_existing_environment and _create_new_environment       *)
(*                                                                         *)
(* e.pc         position inside the call ("none": no call)                 *)
(* e.repo_name  the local repo_name                                        *)
(* e.on_create  'settings/environment/create' in self.page.url             *)
(* e.rows       the texts of the rows of the environments table            *)
(* e.cands      the texts of the repository buttons of the creation list   *)
(* e.found      what _find_and_select_existing_environment returned        *)
(* e.res        what _handle_environments_page returned                    *)
(* bookkeeping: e.log the page interactions made, in order; e.target the   *)
(* text of the row or of the repository button that was clicked;           *)
(* e.selected a workspace was confirmed with "Use this"; e.fault an engine *)
(* call failed on an element that the page shows.                          *)
(***************************************************************************)
WidgetName == <<"acme", "/", "widget">>
WidgetUiName == <<"acme", "/", "widget", "-ui">>
MyLibName == <<"acme", "/", "my-lib">>

RowLists == {<<>>, <<MyLibName>>, <<WidgetName>>, <<MyLibName, WidgetName>>,
             <<WidgetUiName, WidgetName>>}
CandLists == {<<>>, <<MyLibName>>, <<MyLibName, WidgetName>>}

ENone == [pc |-> "none", repo_name |-> <<>>, on_create |-> FALSE,
          rows |-> <<>>, cands |-> <<>>, found |-> FALSE, res |-> FALSE,
          log |-> <<>>, target |-> <<>>, selected |-> FALSE, fault |-> FALSE]

\* the state in which the caller leaves e when it calls
\* _handle_environments_page
ECall == [ENone EXCEPT !.pc = "start"]

EReturn(x, b) == [x EXCEPT !.pc = "done", !.res = b]
ELog(x, event) == [x EXCEPT !.log = Append(x.log, event)]

\* everything but e and r
envsFrame == <<kind, loading_selector, botright_client, browser, page, open_pages,
               is_browser_ready, repo_url, authenticated, workspaceSelected,
               pc, o, w, stop_visible, m, ret, a>>

\* the elements a selector with has-text('{name}') or :text('{name}')
\* matches, in document order: those whose text contains the name
Matching(texts, name) == {i \in 1..Len(texts) : Contains(texts[i], name)}

\* query_selector: the first matching element (0: None)
FirstMatching(texts, name) ==
  IF Matching(texts, name) = {} THEN 0
  ELSE CHOOSE i \in Matching(texts, name) :
         \A j \in Matching(texts, name) : i <= j

\* (mutant) the creation page is not recognised
EnvsEntryAlwaysFind(on_create) == "f_idle"

\* lines 206-210: "if 'settings/environment/create' in self.page.url:
\* return await self._create_new_environment(repo_name)", else the
\* existing environment is looked for
EnvsEntry(on_create) == IF on_create THEN "c_wait_list" ELSE "f_idle"

\* (mutant) a repository URL that is not set is treated as any other
NoRepositoryNever(url) == FALSE

\* lines 197-198: "repo_url = self.get_working_repo_url()", "if not
\* repo_url:" (None and the empty string alike)
NoRepository(url) == url = <<>>

\* lines 197-210: no repository URL: return True; else the name is
\* extracted; already on the creation page: _create_new_environment; else
\* _find_and_select_existing_environment on the table the page shows
HandleEnvironmentsPage ==
  /\ e.pc = "start"
  /\ IF NoRepository(repo_url)
       THEN e' = EReturn(e, TRUE)
       ELSE \E on_create \in BOOLEAN, rows \in RowLists :
              /\ on_create => rows = <<>>
              /\ e' = [e EXCEPT !.pc = EnvsEntry(on_create),
                                !.repo_name = ExtractRepoName(repo_url),
                                !.on_create = on_create,
                                !.rows = rows]
  /\ UNCHANGED <<envsFrame, r>>

\* _find_and_select_existing_environment returns b
FindReturn(x, b) == [x EXCEPT !.pc = "after_find", !.found = b]

\* line 229: await self.page.wait_for_load_state("networkidle"); its
\* timeout is caught by "except Exception": return False
FindWaitIdle ==
  /\ e.pc = "f_idle"
  /\ \E idle \in BOOLEAN :
       e' = IF idle THEN [e EXCEPT !.pc = "f_get"]
                    ELSE FindReturn([e EXCEPT !.fault = TRUE], FALSE)
  /\ UNCHANGED <<envsFrame, r>>

\* lines 231-234: element = _get_element_robust(repo_selector, ...), None
\* when no row matches within the timeout; "if element:" the row is clicked
\* with _robust_click_element(repo_selector, ...)
FindGetElement ==
  /\ e.pc = "f_get"
  /\ \E in_time \in BOOLEAN :
       IF FirstMatching(e.rows, e.repo_name) # 0 /\ in_time
         THEN /\ e' = [e EXCEPT !.pc = "f_row_click"]
              /\ r' = RCall("click", 0)
         ELSE /\ e' = FindReturn(
                        [e EXCEPT !.fault = e.fault
                                    \/ FirstMatching(e.rows, e.repo_name) # 0],
                        FALSE)
              /\ UNCHANGED r
  /\ UNCHANGED envsFrame

\* lines 234-238: "if success:" wait_for_timeout(2000) (it may raise), then
\* return _robust_click_element(USE_THIS_BUTTON, ...); else return False
FindRowClicked ==
  /\ e.pc = "f_row_click" /\ r.pc = "done"
  /\ IF r.res
       THEN LET x == [ELog(e, "click_row") EXCEPT
                        !.target = e.rows[FirstMatching(e.rows, e.repo_name)]]
            IN  \E ok \in BOOLEAN :
                  IF ok THEN /\ e' = [x EXCEPT !.pc = "f_use_click"]
                             /\ r' = RCall("click", 0)
                        ELSE /\ e' = FindReturn([x EXCEPT !.fault = TRUE], FALSE)
                             /\ r' = RIdle
       ELSE /\ e' = FindReturn([e EXCEPT !.fault = TRUE], FALSE)
            /\ r' = RIdle
  /\ UNCHANGED envsFrame

\* line 238: the result of the "Use this" click is the result
FindUseClicked ==
  /\ e.pc = "f_use_click" /\ r.pc = "done"
  /\ r' = RIdle
  /\ e' = IF r.res
            THEN FindReturn([ELog(e, "click_use_this") EXCEPT
                               !.selected = TRUE], TRUE)
            ELSE FindReturn([e EXCEPT !.fault = TRUE], FALSE)
  /\ UNCHANGED envsFrame

\* (mutant) the create-environment button is clicked whatever was found
AfterFindAlwaysCreate(found) == "create_click"

\* lines 210-216: "if await self._find_and_select_existing_environment(...):
\* return True"; else the create-environment button is clicked
AfterFind(found) == IF found THEN "done" ELSE "create_click"

EnvsAfterFind ==
  /\ e.pc = "after_find"
  /\ IF AfterFind(e.found) = "done"
       THEN e' = EReturn(e, TRUE) /\ UNCHANGED r
       ELSE /\ e' = [e EXCEPT !.pc = "create_click"]
            /\ r' = RCall("click", 0)
  /\ UNCHANGED envsFrame

\* lines 216-220: "if not await self._click_element(CREATE_ENV_BUTTON, ...):
\* return False"; else _create_new_environment(repo_name)
EnvsCreateClicked ==
  /\ e.pc = "create_click" /\ r.pc = "done"
  /\ r' = RIdle
  /\ e' = IF r.res THEN [ELog(e, "click_create") EXCEPT !.pc = "c_wait_list"]
                   ELSE EReturn(e, FALSE)
  /\ UNCHANGED envsFrame

\* _create_new_environment, lines 249-254: the two _wait_for_element calls
\* (their result is not used), wait_for_timeout(2000), then
\* wait_for_selector("button p.text-token-text-primary", timeout=10000),
\* whose timeout (no repository button in the list) is an exception:
\* return False
CreateWaitList ==
  /\ e.pc = "c_wait_list"
  /\ \E cands \in CandLists, in_time \in BOOLEAN :
       e' = IF cands # <<>> /\ in_time
              THEN [ELog(e, "wait_list") EXCEPT !.pc = "c_query",
                                                !.cands = cands]
              ELSE EReturn([ELog(e, "wait_list") EXCEPT
                              !.cands = cands,
                              !.fault = e.fault \/ cands # <<>>], FALSE)
  /\ UNCHANGED <<envsFrame, r>>

\* _scroll_and_click(element, description): the element is scrolled to and
\* clicked; every failure is caught inside and only printed, so the caller
\* goes on whether the click was made (clicked) or not
ScrollAndClick(x, event, clicked) ==
  IF clicked THEN ELog(x, event) ELSE [x EXCEPT !.fault = TRUE]

\* lines 257-266: the first repository button whose text contains the last
\* part of the name; "if element and await element.is_visible():"
\* _scroll_and_click, "else: return False"
CreateClickCandidate ==
  /\ e.pc = "c_query"
  /\ LET i == FirstMatching(e.cands, RepoOnly(e.repo_name)) IN
     \E visible \in BOOLEAN, clicked \in BOOLEAN :
       e' = IF i # 0 /\ visible
              THEN [ScrollAndClick(e, "click_candidate", clicked) EXCEPT
                      !.pc = "c_final",
                      !.target = IF clicked THEN e.cands[i] ELSE e.target]
              ELSE EReturn([e EXCEPT !.fault = e.fault \/ i # 0], FALSE)
  /\ UNCHANGED <<envsFrame, r>>

\* lines 269-277: wait_for_timeout(2000) (it may raise: return False); the
\* final "Create environment" control: visible: _scroll_and_click, else
\* return False
CreateClickFinal ==
  /\ e.pc = "c_final"
  /\ \E out \in {"raise", "absent", "clicked", "not_clicked"} :
       e' = IF out \in {"raise", "absent"}
              THEN EReturn([e EXCEPT !.fault = TRUE], FALSE)
              ELSE [ScrollAndClick(e, "click_final_create", out = "clicked")
                      EXCEPT !.pc = "c_redirect"]
  /\ UNCHANGED <<envsFrame, r>>

\* lines 280-281: _wait_for_redirect (wait_for_timeout(3000), which may
\* raise, and _wait_for_element(USE_THIS_BUTTON), whose result is not
\* used), then _click_element(USE_THIS_BUTTON, ...)
CreateWaitRedirect ==
  /\ e.pc = "c_redirect"
  /\ \E ok \in BOOLEAN :
       IF ok THEN /\ e' = [ELog(e, "wait_redirect") EXCEPT !.pc = "c_use_click"]
                  /\ r' = RCall("click", 0)
             ELSE /\ e' = EReturn([e EXCEPT !.fault = TRUE], FALSE)
                  /\ UNCHANGED r
  /\ UNCHANGED envsFrame

\* line 281: the result of the "Use this" click is the result
CreateUseClicked ==
  /\ e.pc = "c_use_click" /\ r.pc = "done"
  /\ r' = RIdle
  /\ e' = IF r.res
            THEN EReturn([ELog(e, "click_use_this") EXCEPT !.selected = TRUE],
                         TRUE)
            ELSE EReturn([e EXCEPT !.fault = TRUE], FALSE)
  /\ UNCHANGED envsFrame

Environments ==
  \/ HandleEnvironmentsPage \/ FindWaitIdle \/ FindGetElement
  \/ FindRowClicked \/ FindUseClicked \/ EnvsAfterFind \/ EnvsCreateClicked
  \/ CreateWaitList \/ CreateClickCandidate \/ CreateClickFinal
  \/ CreateWaitRedirect \/ CreateUseClicked

(***************************************************************************)
(* Public calls.  ret is what the latest one returned; o records what the  *)
(* latest open_coding_interface call did (o.auth, o.envs: "none" when the  *)
(* step was not run; o.setup: what _setup_web_interface returned;          *)
(* o.was_ready: the flag when the call began).  Both are the bookkeeping   *)
(* of the latest call and are cleared when another call begins.            *)
(* ret.content: the parts of AgentResponse.content, joined by blank lines  *)
(* in the code.  Bookkeeping of OpenAICodexAgent.execute_prompt:           *)
(* ret.submits the clicks of the Code button that succeeded; ret.task what *)
(* _open_created_task found; ret.monitored _wait_for_completion was begun; *)
(* ret.swallowed an extraction step raised; ret.page_output the text of    *)
(* the last output element of the page (empty when there is none);         *)
(* ret.page_pr the href of the "View PR" link (empty when there is none).  *)
(***************************************************************************)
NoRet == [call |-> "none", success |-> FALSE, error |-> "none",
          completion |-> "none", content |-> <<>>, submits |-> 0,
          task |-> "none", monitored |-> FALSE, swallowed |-> FALSE,
          page_output |-> <<>>, page_pr |-> <<>>]
\* o.captcha: what solve_captcha_if_present returned ("solved": True,
\* "failed": False); o.input: whether the wait for the input field found it
ONone == [auth |-> "none", envs |-> "none", setup |-> "none",
          was_ready |-> FALSE, captcha |-> "none", input |-> "none"]
\* the repository URLs of the callers: none (empty), a GitHub repository,
\* a repository on another host
RepoUrls == {<<>>,
             <<"https:", "/", "/", "github.com", "/", "acme", "/", "widget",
               ".", "git">>,
             <<"https:", "/", "/", "gitlab.com", "/", "acme", "/", "widget">>}

\* set_repository_context(repo_url, ...)
SetRepositoryContext ==
  /\ pc = "idle"
  /\ \E u \in RepoUrls : u # repo_url /\ repo_url' = u
  /\ o' = ONone
  /\ ret' = NoRet
  /\ UNCHANGED <<kind, loading_selector, flowVars, fieldVars, sessionVars, pc, r, waitVars>>

\* open_coding_interface is called
OpenCodingInterface ==
  /\ pc = "idle"
  /\ open_pages < MaxOpenPages
  /\ pc' = "open"
  /\ o' = [ONone EXCEPT !.was_ready = is_browser_ready]
  /\ ret' = NoRet
  /\ UNCHANGED <<kind, loading_selector, flowVars, fieldVars, repo_url, sessionVars, r, waitVars>>

OpenReturn(b) ==
  /\ pc' = "idle"
  /\ ret' = [NoRet EXCEPT !.call = "open", !.success = b]

\* line 197: "self.page = await self.browser.new_page()": one more page is
\* open in the browser; the page that self.page held is not closed
PagesAfterNewPage(pages, had_page, made) ==
  IF made THEN pages + 1 ELSE pages

\* lines 183-200: the client and the browser are created when absent, a new
\* page always; any of the three may raise.  Then _robust_navigate(web_url).
OpenAcquire ==
  /\ pc = "open"
  /\ \E err \in {"ok", "client", "browser", "page"} :
       /\ err = "client" => ~botright_client
       /\ err = "browser" => ~browser
       /\ botright_client' = (botright_client \/ err # "client")
       /\ browser' = (browser \/ err \notin {"client", "browser"})
       /\ page' = (page \/ err = "ok")
       /\ open_pages' = PagesAfterNewPage(open_pages, page, err = "ok")
       /\ IF err = "ok"
            THEN /\ authenticated' = FALSE
                 /\ workspaceSelected' = FALSE
                 /\ pc' = "open_nav"
                 /\ r' = RCall("nav", 0)
            ELSE /\ UNCHANGED <<sessionVars, r>>
                 /\ pc' = "open_except"
  /\ UNCHANGED <<kind, loading_selector, flowVars, is_browser_ready, repo_url, o, waitVars, ret>>

\* lines 203-209: if not navigation_success: return False; else the setup
OpenAfterNavigate ==
  /\ pc = "open_nav" /\ r.pc = "done"
  /\ r' = RIdle
  /\ IF r.res
       THEN /\ pc' = IF kind = "codex" THEN "cx_auth" ELSE "wb_captcha"
            /\ a' = IF kind = "codex" THEN ACall ELSE a
            /\ UNCHANGED ret
       ELSE OpenReturn(FALSE) /\ UNCHANGED a
  /\ UNCHANGED <<kind, loading_selector, e, fieldVars, repo_url, sessionVars, o, waitVars>>

\* (mutant) the result of _handle_authentication is not tested
SetupIgnoringAuth(auth_ok) == "cx_envs"

\* OpenAICodexAgent._setup_web_interface: "if not await
\* self._handle_authentication(): return False", an exception likewise
SetupAfterAuth(auth_ok) == IF auth_ok THEN "cx_envs" ELSE "open_setup"

\* _setup_web_interface after _handle_authentication has returned (or
\* raised: the "except Exception" of _setup_web_interface returns False)
AuthReturn ==
  /\ pc = "cx_auth" /\ a.pc = "done"
  /\ authenticated' = a.res
  /\ o' = [o EXCEPT !.auth = IF a.res THEN "ok" ELSE "failed",
                    !.setup = IF a.res THEN "none" ELSE "failed"]
  /\ pc' = SetupAfterAuth(a.res)
  /\ a' = ANone
  /\ e' = IF SetupAfterAuth(a.res) = "cx_envs" THEN ECall ELSE e
  /\ UNCHANGED <<kind, loading_selector, fieldVars, repo_url, workspaceSelected, r, waitVars, ret>>

\* _setup_web_interface after _handle_environments_page has returned:
\* "if not ...: return False", else return True
EnvsReturn ==
  /\ pc = "cx_envs" /\ e.pc = "done"
  /\ workspaceSelected' = e.selected
  /\ o' = [o EXCEPT !.envs = CASE ~e.res -> "failed"
                               [] e.log = <<>> -> "skipped"
                               [] OTHER -> "ok",
                    !.setup = IF e.res THEN "ok" ELSE "failed"]
  /\ pc' = "open_setup"
  /\ e' = ENone
  /\ UNCHANGED <<kind, loading_selector, a, fieldVars, repo_url, authenticated, r, waitVars, ret>>

\* lines 443-447: captcha_types holds three solvers
CAPTCHA_SOLVERS == 3

\* (mutant) a captcha that was not solved ends the setup
AfterCaptchaFatal(solved) == IF solved THEN "wb_input" ELSE "open_setup"

\* lines 258-261: "await self.solve_captcha_if_present()" is a statement:
\* its value is dropped and the wait for the input field follows
AfterCaptcha(solved) == "wb_input"

\* solve_captcha_if_present: without a page: return False; the solvers are
\* called in turn, the first that does not raise: return True; an
\* exception of a solver is caught and the next is tried; after the last:
\* return False (and so does any other exception)
SolveCaptchaIfPresent ==
  /\ pc = "wb_captcha"
  /\ \E raises \in [1..CAPTCHA_SOLVERS -> BOOLEAN] :
       LET solved == page /\ \E i \in 1..CAPTCHA_SOLVERS : ~raises[i] IN
         /\ pc' = AfterCaptcha(solved)
         /\ o' = [o EXCEPT !.captcha = IF page /\ \E i \in 1..CAPTCHA_SOLVERS :
                                                     ~raises[i]
                                         THEN "solved" ELSE "failed"]
  /\ UNCHANGED <<kind, loading_selector, flowVars, fieldVars, repo_url,
                 sessionVars, r, waitVars, ret>>

\* WebAgent._setup_web_interface: _wait_for_element_robust(input_selector)
WaitForInputField ==
  /\ pc = "wb_input"
  /\ \E found \in BOOLEAN :
       o' = [o EXCEPT !.setup = IF found THEN "ok" ELSE "failed",
                      !.input = IF found THEN "found" ELSE "missing"]
  /\ pc' = "open_setup"
  /\ UNCHANGED <<kind, loading_selector, flowVars, fieldVars, repo_url, sessionVars, r, waitVars, ret>>

\* lines 210-216: if not setup_success: return False;
\* self._is_browser_ready = True; return True
OpenAfterSetup ==
  /\ pc = "open_setup"
  /\ IF o.setup = "ok"
       THEN /\ is_browser_ready' = TRUE
            /\ OpenReturn(TRUE)
       ELSE /\ UNCHANGED is_browser_ready
            /\ OpenReturn(FALSE)
  /\ UNCHANGED <<kind, loading_selector, flowVars, botright_client, browser, page,
                 open_pages, repo_url, sessionVars, r, o, waitVars>>

\* lines 238-244: page.close() closes the page of self.page;
\* browser.close() closes the browser with every page that is open in it;
\* a close() that raises (at) closes nothing
PagesAfterCleanup(pages, had_page, had_browser, at) ==
  CASE at = "page" -> pages
    [] at = "browser" -> IF had_page THEN pages - 1 ELSE pages
    [] OTHER -> IF had_browser THEN 0
                ELSE IF had_page THEN pages - 1 ELSE pages

\* _cleanup_browser: the flag is cleared, then page, browser and client are
\* closed and forgotten in turn; the first close() that raises (at) ends it
CleanupBrowser(at) ==
  /\ at = "page" => page
  /\ at = "browser" => browser
  /\ at = "client" => botright_client
  /\ is_browser_ready' = FALSE
  /\ page' = (page /\ at = "page")
  /\ open_pages' = PagesAfterCleanup(open_pages, page, browser, at)
  /\ browser' = (browser /\ at \in {"page", "browser"})
  /\ botright_client' = (botright_client /\ at # "none")
  /\ authenticated' = (authenticated /\ page')
  /\ workspaceSelected' = (workspaceSelected /\ page')

CloseAt == {"none", "page", "browser", "client"}

\* lines 218-221: except Exception: await self._cleanup_browser(); return False
OpenExcept ==
  /\ pc = "open_except"
  /\ \E at \in CloseAt : CleanupBrowser(at)
  /\ OpenReturn(FALSE)
  /\ UNCHANGED <<kind, loading_selector, flowVars, repo_url, r, o, waitVars>>

\* close_coding_interface: _cleanup_browser(); return True
CloseCodingInterface ==
  /\ pc = "idle"
  /\ \E at \in CloseAt : CleanupBrowser(at)
  /\ ret' = [NoRet EXCEPT !.call = "close", !.success = TRUE]
  /\ o' = ONone
  /\ UNCHANGED <<kind, loading_selector, flowVars, repo_url, pc, r, waitVars>>

(***************************************************************************)
(* OpenAICodexAgent.execute_prompt                                         *)
(***************************************************************************)
ExecReturn(ok, error, completion) ==
  /\ pc' = "idle"
  /\ ret' = [NoRet EXCEPT !.call = "exec", !.success = ok, !.error = error,
                          !.completion = completion]

\* return AgentResponse(content=..., success=..., error_message=...) of
\* OpenAICodexAgent.execute_prompt
CodexReturn(ok, error, completion, content) ==
  /\ pc' = "idle"
  /\ ret' = [ret EXCEPT !.call = "exec", !.success = ok, !.error = error,
                        !.completion = completion, !.content = content]

\* execute_prompt is called: _send_prompt begins with
\* _robust_fill_input(PROMPT_INPUT, prompt); nothing is tested before it
CodexExecutePrompt ==
  /\ pc = "idle" /\ kind = "codex"
  /\ pc' = "cx_fill"
  /\ r' = RCall("fill", 0)
  /\ ret' = NoRet
  /\ o' = ONone
  /\ UNCHANGED <<kind, loading_selector, flowVars, fieldVars, repo_url, sessionVars, waitVars>>

\* _send_prompt: if not success: raise Exception("Failed to fill prompt
\* input"); else _robust_click_element(CODE_BUTTON, "Code button")
CodexAfterFill ==
  /\ pc = "cx_fill" /\ r.pc = "done"
  /\ IF r.res
       THEN /\ r' = RCall("click", 0)
            /\ pc' = "cx_click"
            /\ UNCHANGED ret
       ELSE /\ r' = RIdle
            /\ CodexReturn(FALSE, "Failed to fill prompt input", "none", <<>>)
  /\ UNCHANGED <<kind, loading_selector, flowVars, fieldVars, repo_url, sessionVars, o, waitVars>>

\* _send_prompt: if not success: raise Exception("Failed to click Code
\* button"); else the prompt is submitted and _open_created_task follows
CodexAfterClick ==
  /\ pc = "cx_click" /\ r.pc = "done"
  /\ r' = RIdle
  /\ IF r.res
       THEN /\ pc' = "cx_task"
            /\ ret' = [ret EXCEPT !.submits = @ + 1]
       ELSE CodexReturn(FALSE, "Failed to click Code button", "none", <<>>)
  /\ UNCHANGED <<kind, loading_selector, flowVars, fieldVars, repo_url, sessionVars, o, waitVars>>

WNone == [pc |-> "none", elapsed |-> 0, appeared |-> FALSE,
          waited_hidden |-> FALSE, gone |-> FALSE, outcome |-> "none"]

\* (mutant) _complete_task_and_get_pr is called whatever
\* _open_created_task returned
AfterOpenTaskAlways(opened) == "cx_wait"

\* lines 109-113: "if not await self._open_created_task(): return
\* AgentResponse(..., error_message="Failed to open task")", else
\* _complete_task_and_get_pr
AfterOpenTask(opened) == IF opened THEN "cx_wait" ELSE "idle"

\* _open_created_task: the loading wait (which swallows its errors), then
\* query_selector(TASK_LINK): found: click it and return True; not found:
\* return False; the waits, the query and the click may raise, which
\* execute_prompt turns into a failure.  With the task open,
\* _complete_task_and_get_pr begins: _focus_chat_input (which swallows its
\* errors), then _wait_for_completion
OpenCreatedTask ==
  /\ pc = "cx_task"
  /\ \E out \in {"opened", "absent", "raise"} :
       IF out = "raise"
         THEN /\ CodexReturn(FALSE, "engine error", "none", <<>>)
              /\ UNCHANGED waitVars
         ELSE IF AfterOpenTask(out = "opened") = "cx_wait"
           THEN /\ pc' = "cx_wait"
                /\ ret' = [ret EXCEPT !.task = out, !.monitored = TRUE]
                /\ w' = [WNone EXCEPT !.pc = "appear"]
                /\ stop_visible' \in BOOLEAN
                /\ UNCHANGED m
           ELSE /\ pc' = "idle"
                /\ ret' = [ret EXCEPT !.call = "exec", !.success = FALSE,
                                      !.error = "Failed to open task",
                                      !.task = out]
                /\ UNCHANGED waitVars
  /\ UNCHANGED <<kind, loading_selector, flowVars, fieldVars, repo_url, sessionVars, o, r>>

(***************************************************************************)
(* OpenAICodexAgent._wait_for_completion                                   *)
(*   w.pc        "appear": _wait_for_element_robust(STOP_BUTTON, 30000);   *)
(*               "hidden": wait_for_selector(STOP_BUTTON, state="hidden",  *)
(*               timeout=1200000); "final": wait_for_timeout(2000)         *)
(*   w.elapsed   seconds the pending selector wait has lasted              *)
(*   w.appeared  the local stop_button_appeared                            *)
(* bookkeeping: w.waited_hidden the second wait was begun; w.gone the stop *)
(* button has been hidden at some moment since it was seen to appear;      *)
(* w.outcome how the call came to its end.                                 *)
(***************************************************************************)
\* the page shows or hides the stop button while the agent waits
StopButtonChanges ==
  /\ w.pc \in {"appear", "hidden"}
  /\ stop_visible' = ~stop_visible
  /\ w' = [w EXCEPT !.gone = w.gone \/ (w.appeared /\ stop_visible)]
  /\ UNCHANGED <<agentVars, pc, r, m>>

\* wait_for_selector(..., state=...) is satisfied
SelectorState(state, visible) ==
  IF state = "visible" THEN visible ELSE ~visible

WaitTimeout(wpc) ==
  IF wpc = "appear" THEN STOP_APPEAR_TIMEOUT ELSE STOP_HIDDEN_TIMEOUT

WaitFor(wpc) == IF wpc = "appear" THEN "visible" ELSE "hidden"

\* (mutant) a wait whose clock stands still: a wait without a timeout
ElapseNever(elapsed) == elapsed

\* the clock of the timeout= argument of a selector wait (lines 411, 419)
Elapse(elapsed) == elapsed + TickSeconds

\* time passes while the selector wait is neither satisfied nor timed out
WaitTick ==
  /\ w.pc \in {"appear", "hidden"}
  /\ ~SelectorState(WaitFor(w.pc), stop_visible)
  /\ w.elapsed < WaitTimeout(w.pc)
  /\ w' = [w EXCEPT !.elapsed = Elapse(w.elapsed)]
  /\ UNCHANGED <<agentVars, pc, r, stop_visible, m>>

\* (mutant) the wait for the hidden state is made whatever appeared
AfterAppearAlwaysWait(appeared) == "hidden"

\* "if stop_button_appeared:" wait for it to go, "else:" only a warning
AfterAppear(appeared) == IF appeared THEN "hidden" ELSE "final"

\* stop_button_appeared = await self._wait_for_element_robust(...): True
\* when the button is visible, False when the 30 s pass without it
WaitStopAppear ==
  /\ w.pc = "appear"
  /\ LET seen == SelectorState("visible", stop_visible) IN
       /\ seen \/ w.elapsed >= STOP_APPEAR_TIMEOUT
       /\ w' = [w EXCEPT !.pc = AfterAppear(seen), !.elapsed = 0,
                         !.appeared = seen,
                         !.waited_hidden = (AfterAppear(seen) = "hidden"),
                         !.outcome = IF AfterAppear(seen) = "hidden"
                                       THEN "none" ELSE "fast"]
  /\ UNCHANGED <<agentVars, pc, r, stop_visible, m>>

\* (mutant) the second wait waits for the visible state again
StopWaitVisible == "visible"

\* the state the second wait of _wait_for_completion waits for
StopWaitState == "hidden"

\* await self.page.wait_for_selector(STOP_BUTTON, state="hidden",
\* timeout=1200000): returns when hidden; its timeout error is caught by
\* "except Exception" (a warning is printed) and the call goes on
WaitStopHidden ==
  /\ w.pc = "hidden"
  /\ LET reached == SelectorState(StopWaitState, stop_visible) IN
       /\ reached \/ w.elapsed >= STOP_HIDDEN_TIMEOUT
       /\ w' = [w EXCEPT !.pc = "final",
                         !.gone = w.gone \/ ~stop_visible,
                         !.outcome = IF reached THEN "hidden" ELSE "timeout"]
  /\ UNCHANGED <<agentVars, pc, r, stop_visible, m>>

\* await self.page.wait_for_timeout(2000), and the call returns (the time
\* its selector wait lasted is forgotten)
WaitFinal ==
  /\ w.pc = "final"
  /\ w' = [w EXCEPT !.pc = "done", !.elapsed = 0]
  /\ UNCHANGED <<agentVars, pc, r, stop_visible, m>>

\* the texts the last output element may hold: nothing, white space, a
\* text of 101 characters between white space
OutputTexts == {<<>>, <<" ">>, <<" ", "a101", " ">>}

RECURSIVE StripLeft(_)
StripLeft(s) ==
  IF s # <<>> /\ Head(s) = " " THEN StripLeft(Tail(s)) ELSE s

RECURSIVE StripRight(_)
StripRight(s) ==
  IF s # <<>> /\ s[Len(s)] = " " THEN StripRight(SubSeq(s, 1, Len(s) - 1))
  ELSE s

\* content.strip()
Strip(s) == StripRight(StripLeft(s))

\* (mutant) the text of the output element is never returned
OutputContentNever(text) == <<>>

\* lines 378-383: "if content and len(content.strip()) > 0: return
\* content.strip()", else None (the empty sequence here: None and the empty
\* string are both false in "if output_content:")
OutputContent(text) == IF Len(Strip(text)) > 0 THEN Strip(text) ELSE <<>>

\* the href values of the "View PR" link: None, a pull request of
\* github.com, another page of github.com, a pull request of another host
Hrefs == {<<>>, <<"github.com", "/pull/">>, <<"github.com">>,
          <<"gitlab.com", "/pull/">>}

\* (mutant) every href is returned
PrUrlAnyHref(href) == href

\* lines 452-454: "if href and 'github.com' in href and '/pull/' in href:
\* return href", else None (the empty sequence here)
PrUrl(href) ==
  IF /\ href # <<>>
     /\ \E i \in 1..Len(href) : href[i] = "github.com"
     /\ \E i \in 1..Len(href) : href[i] = "/pull/"
    THEN href ELSE <<>>

\* lines 124-130: the status message of the response
StatusMessage(output_content, pr_url) ==
  IF pr_url # <<>>
    THEN "Task completed successfully with output and PR created."
    ELSE IF output_content # <<>>
      THEN "Task completed successfully with output generated."
      ELSE "Task completed but no output or PR captured."

\* lines 118-122: the output block of the response
OutputParts(output_content) ==
  IF output_content # <<>>
    THEN <<"AGENT OUTPUT:", "=====", output_content, "=====">>
    ELSE <<>>

\* (mutant) the line of the pull request is left out
PrPartsNever(pr_url) == <<>>

\* lines 124-125: the line of the pull request
PrParts(pr_url) ==
  IF pr_url # <<>> THEN <<"PR created: ", pr_url>> ELSE <<>>

\* lines 116-136: response_parts with the status message put first (the
\* status message alone when there are no parts)
FinalContent(output_content, pr_url) ==
  <<StatusMessage(output_content, pr_url)>>
    \o OutputParts(output_content) \o PrParts(pr_url)

\* (mutant) the extraction does not await the end of the wait
ExtractionMayBeginEarly(wpc) == wpc # "none"

\* lines 348-351: "await self._wait_for_completion()" has returned when
\* _extract_output_content is called
ExtractionMayBegin(wpc) == wpc = "done"

\* _extract_output_content after the wait: the last output element's
\* inner_text, or None when there is no element or a call raised (the
\* error is caught and printed)
CodexExtractOutput ==
  /\ pc = "cx_wait" /\ ExtractionMayBegin(w.pc)
  /\ pc' = "cx_create_pr"
  /\ \E obs \in {"raise", "no_elements", "text"}, text \in OutputTexts :
       ret' = [ret EXCEPT
                 !.page_output = IF obs = "text" THEN text ELSE <<>>,
                 !.swallowed = @ \/ obs = "raise"]
  /\ UNCHANGED <<kind, loading_selector, flowVars, fieldVars, repo_url,
                 sessionVars, o, r, waitVars>>

\* _try_create_pr: the "Create PR" button is clicked when it is there;
\* "except: pass"
CodexTryCreatePr ==
  /\ pc = "cx_create_pr"
  /\ pc' = "cx_pr_url"
  /\ \E obs \in {"raise", "clicked"} :
       ret' = [ret EXCEPT !.swallowed = @ \/ obs = "raise"]
  /\ UNCHANGED <<kind, loading_selector, flowVars, fieldVars, repo_url,
                 sessionVars, o, r, waitVars>>

\* _extract_pr_url (its errors are caught and printed), then execute_prompt
\* builds the content and returns AgentResponse(content=final_content,
\* success=True)
CodexComplete ==
  /\ pc = "cx_pr_url"
  /\ \E obs \in {"raise", "link"}, href \in Hrefs :
       LET seen == IF obs = "link" THEN href ELSE <<>> IN
         /\ pc' = "idle"
         /\ ret' = [ret EXCEPT
                      !.call = "exec", !.success = TRUE,
                      !.completion = w.outcome,
                      !.page_pr = seen,
                      !.swallowed = @ \/ obs = "raise",
                      !.content = FinalContent(OutputContent(ret.page_output),
                                               PrUrl(seen))]
  /\ w' = WNone
  /\ stop_visible' = FALSE
  /\ UNCHANGED m
  /\ UNCHANGED <<kind, loading_selector, flowVars, fieldVars, repo_url, sessionVars, o, r>>

(***************************************************************************)
(* WebAgent.execute_prompt                                                 *)
(***************************************************************************)
\* execute_prompt is called: "if not self._is_browser_ready or not
\* self.page: raise"; else _send_prompt_to_web_interface begins with
\* _robust_fill_input(input_selector, prompt)
WebExecutePrompt ==
  /\ pc = "idle" /\ kind = "web"
  /\ IF ~is_browser_ready \/ ~page
       THEN /\ ExecReturn(FALSE, "Failed to execute prompt: Browser not ready",
                          "none")
            /\ UNCHANGED r
       ELSE /\ pc' = "wb_fill"
            /\ r' = RCall("fill", 0)
            /\ ret' = NoRet
  /\ o' = ONone
  /\ UNCHANGED <<kind, loading_selector, flowVars, fieldVars, repo_url, sessionVars,
                 waitVars>>

\* if not success: raise Exception("Failed to fill input field"); else
\* _robust_click_element(submit_selector, "submit button")
WebAfterFill ==
  /\ pc = "wb_fill" /\ r.pc = "done"
  /\ IF r.res
       THEN /\ r' = RCall("click", 0)
            /\ pc' = "wb_click"
            /\ UNCHANGED ret
       ELSE /\ r' = RIdle
            /\ ExecReturn(FALSE, "Failed to fill input field", "none")
  /\ UNCHANGED <<kind, loading_selector, flowVars, fieldVars, repo_url, sessionVars, o,
                 waitVars>>

MNone == [pc |-> "none", now |-> 0, start_time |-> 0, last_change_time |-> 0,
          last_content |-> "", current_content |-> "",
          prev |-> "", run_start |-> 0, outcome |-> "none",
          indicator |-> "none"]

\* if not success: raise Exception("Failed to click submit button"); else
\* the prompt is submitted, RETRY_DELAY is waited and
\* _wait_for_web_completion begins
WebAfterClick ==
  /\ pc = "wb_click" /\ r.pc = "done"
  /\ r' = RIdle
  /\ IF r.res
       THEN /\ pc' = "wb_wait"
            /\ m' = [MNone EXCEPT !.pc = "loading"]
            /\ UNCHANGED ret
       ELSE /\ ExecReturn(FALSE, "Failed to click submit button", "none")
            /\ UNCHANGED m
  /\ UNCHANGED <<kind, loading_selector, flowVars, fieldVars, repo_url, sessionVars, o,
                 w, stop_visible>>

(***************************************************************************)
(* WebAgent._wait_for_web_completion and _monitor_output_changes           *)
(*   m.now              the clock, in seconds since the call began         *)
(*   m.start_time, m.last_change_time, m.last_content, m.current_content   *)
(*                      the locals of _monitor_output_changes              *)
(* bookkeeping: m.prev the content the previous poll observed, m.run_start *)
(* the time of the poll that first observed the content observed since;    *)
(* m.outcome how the call came to its end; m.indicator how the wait for    *)
(* the loading indicator ended ("skipped": it was not made).               *)
(***************************************************************************)
Contents == {"", "a100", "a101", "b101"}

\* len(current_content)
ContentLen(c) ==
  CASE c = "" -> 0
    [] c = "a100" -> 100
    [] OTHER -> 101

\* (mutant) the content is monitored whatever the indicator did
AfterIndicatorAlwaysMonitor(out) == "while"

\* lines 331-341: the indicator is hidden (or absent): "return"; the wait
\* raised (its timeout or another error): the exception is printed and
\* _monitor_output_changes follows
AfterIndicator(out) == IF out = "hidden" THEN "returned" ELSE "while"

\* lines 330-343: with a loading selector and a page, wait for the loading
\* indicator to be hidden (timeout_ms); hidden: return; any error: go on to
\* _monitor_output_changes(timeout_ms), as without a loading selector
WebLoadingWait ==
  /\ pc = "wb_wait" /\ m.pc = "loading"
  /\ IF loading_selector /\ page
       THEN \E out \in {"hidden", "timeout", "error"} :
              m' = CASE AfterIndicator(out) = "returned" ->
                          [m EXCEPT !.pc = "returned", !.outcome = "indicator",
                                    !.indicator = out]
                     [] out = "timeout" ->
                          [m EXCEPT !.pc = "while",
                                    !.now = AgentTimeoutSeconds,
                                    !.start_time = AgentTimeoutSeconds,
                                    !.last_change_time = AgentTimeoutSeconds,
                                    !.run_start = AgentTimeoutSeconds,
                                    !.indicator = out]
                     [] OTHER -> [m EXCEPT !.pc = "while", !.indicator = out]
       ELSE m' = [m EXCEPT !.pc = "while", !.indicator = "skipped"]
  /\ UNCHANGED <<agentVars, pc, r, w, stop_visible>>

\* while (time.time() * 1000) - start_time < timeout_ms: ...
\* after the loop: raise AgentTimeoutException(...)
MonitorWhile ==
  /\ m.pc = "while"
  /\ m' = IF m.now - m.start_time < AgentTimeoutSeconds
            THEN [m EXCEPT !.pc = "query"]
            ELSE [m EXCEPT !.pc = "raised", !.outcome = "timeout"]
  /\ UNCHANGED <<agentVars, pc, r, w, stop_visible>>

\* lines 692-697: the text of the output element ("" without a page or an
\* element); the engine call may raise
MonitorObserve ==
  /\ m.pc = "query"
  /\ \E c \in Contents \cup {"raise"} :
       m' = IF c = "raise"
              THEN [m EXCEPT !.pc = "sleep"]
              ELSE [m EXCEPT !.pc = "change",
                             !.current_content = IF page THEN c ELSE "",
                             !.prev = IF page THEN c ELSE "",
                             !.run_start = IF (IF page THEN c ELSE "") # m.prev
                                             THEN m.now ELSE m.run_start]
  /\ UNCHANGED <<agentVars, pc, r, w, stop_visible>>

\* (mutant) only the lengths are compared
ContentLengthChanged(current_content, last_content) ==
  ContentLen(current_content) # ContentLen(last_content)

\* if current_content != last_content:
ContentChanged(current_content, last_content) ==
  current_content # last_content

\* lines 700-703: last_content = current_content;
\* last_change_time = time.time() * 1000
MonitorChange ==
  /\ m.pc = "change"
  /\ m' = IF ContentChanged(m.current_content, m.last_content)
            THEN [m EXCEPT !.pc = "stable",
                           !.last_content = m.current_content,
                           !.last_change_time = m.now]
            ELSE [m EXCEPT !.pc = "stable"]
  /\ UNCHANGED <<agentVars, pc, r, w, stop_visible>>

\* (mutant) "or" for "and"
StableContentEither(current_time, last_change_time, length) ==
  \/ current_time - last_change_time >= STABLE_CONTENT_DURATION
  \/ length > OUTPUT_MIN_LENGTH

\* if (current_time - last_change_time) >= stable_content_duration_ms
\*    and len(current_content) > 100:
StableContent(current_time, last_change_time, length) ==
  /\ current_time - last_change_time >= STABLE_CONTENT_DURATION
  /\ length > OUTPUT_MIN_LENGTH

\* lines 706-709: return when the content is stable, else wait
MonitorStable ==
  /\ m.pc = "stable"
  /\ m' = IF StableContent(m.now, m.last_change_time,
                           ContentLen(m.current_content))
            THEN [m EXCEPT !.pc = "returned", !.outcome = "stable"]
            ELSE [m EXCEPT !.pc = "sleep"]
  /\ UNCHANGED <<agentVars, pc, r, w, stop_visible>>

\* if self.page: await self.page.wait_for_timeout(check_interval_ms)
\* (in the try block and in the except block alike); when the wait of the
\* except block raises, the exception leaves _monitor_output_changes
MonitorSleep ==
  /\ m.pc = "sleep"
  /\ \E j \in 0..MaxJitter, raises \in BOOLEAN :
       m' = IF raises /\ page
              THEN [m EXCEPT !.pc = "failed", !.outcome = "error"]
              ELSE [m EXCEPT !.pc = "while",
                             !.now = IF page THEN m.now + CHECK_INTERVAL + j
                                             ELSE m.now + j]
  /\ UNCHANGED <<agentVars, pc, r, w, stop_visible>>

\* (mutant) every exception is swallowed
ReraisedNever(exception) == FALSE

\* _wait_for_web_completion, "except Exception as e: if isinstance(e,
\* AgentTimeoutException): raise  else: print(...)"
Reraised(exception) == exception = "AgentTimeoutException"

\* the end of _wait_for_web_completion: it returns, unless the monitor
\* raised and the exception is raised again, which execute_prompt turns
\* into AgentResponse(success=False)
WebAfterWait ==
  /\ pc = "wb_wait" /\ m.pc \in {"returned", "raised", "failed"}
  /\ IF /\ m.pc \in {"raised", "failed"}
        /\ Reraised(IF m.pc = "raised" THEN "AgentTimeoutException"
                                       ELSE "Exception")
       THEN /\ ExecReturn(FALSE, "Failed to execute prompt: timed out",
                          m.outcome)
            /\ m' = MNone
       ELSE /\ pc' = "wb_read"
            /\ m' = [MNone EXCEPT !.outcome = m.outcome]
            /\ UNCHANGED ret
  /\ UNCHANGED <<kind, loading_selector, flowVars, fieldVars, repo_url, sessionVars, o,
                 r, w, stop_visible>>

\* content = await self._read_output_file() (it may raise);
\* return AgentResponse(content=content, success=True)
WebReadOutput ==
  /\ pc = "wb_read"
  /\ \E ok \in BOOLEAN :
       IF ok THEN ExecReturn(TRUE, "none", m.outcome)
             ELSE ExecReturn(FALSE, "Failed to execute prompt: read failed",
                             m.outcome)
  /\ m' = MNone
  /\ UNCHANGED <<kind, loading_selector, flowVars, fieldVars, repo_url, sessionVars, o,
                 r, w, stop_visible>>

Init ==
  /\ kind \in Kinds
  /\ loading_selector \in (IF kind = "codex" THEN {TRUE} ELSE BOOLEAN)
  /\ m = MNone
  /\ botright_client = FALSE
  /\ browser = FALSE
  /\ page = FALSE
  /\ open_pages = (IF page THEN 1 ELSE 0)
  /\ is_browser_ready = FALSE
  /\ repo_url = <<>>
  /\ authenticated = FALSE
  /\ workspaceSelected = FALSE
  /\ pc = "idle"
  /\ r = RIdle
  /\ o = ONone
  /\ w = WNone
  /\ stop_visible = FALSE
  /\ ret = NoRet
  /\ a = ANone
  /\ e = ENone

\* the steps of _robust_click_element and those _robust_fill_input adds
RobustClick ==
  \/ REntry \/ RLoop \/ RPage \/ RWaitSelector \/ RQuerySelector
  \/ RActionable \/ RScroll \/ RStabilize \/ RClick \/ RExcept

RobustFill ==
  \/ RFocus \/ RSelectText \/ RDelete \/ RFillText \/ RInputValue \/ RCompare

Robust == RobustClick \/ RobustFill \/ RNavigate

Next ==
  \/ Robust
  \/ SetRepositoryContext \/ OpenCodingInterface \/ OpenAcquire
  \/ OpenAfterNavigate \/ Authentication \/ AuthReturn
  \/ Environments \/ EnvsReturn
  \/ SolveCaptchaIfPresent \/ WaitForInputField \/ OpenAfterSetup
  \/ OpenExcept \/ CloseCodingInterface
  \/ CodexExecutePrompt \/ CodexAfterFill \/ CodexAfterClick
  \/ OpenCreatedTask \/ StopButtonChanges \/ WaitTick \/ WaitStopAppear
  \/ WaitStopHidden \/ WaitFinal
  \/ CodexExtractOutput \/ CodexTryCreatePr \/ CodexComplete
  \/ WebExecutePrompt \/ WebAfterFill \/ WebAfterClick \/ WebLoadingWait
  \/ MonitorWhile \/ MonitorObserve \/ MonitorChange \/ MonitorStable
  \/ MonitorSleep \/ WebAfterWait \/ WebReadOutput

Spec == Init /\ [][Next]_vars

\* the steps of the agent inside a call: every action but the calls the
\* caller makes and the changes of the page
AgentSteps ==
  \/ Robust
  \/ OpenAcquire \/ OpenAfterNavigate \/ Authentication \/ AuthReturn
  \/ Environments \/ EnvsReturn
  \/ SolveCaptchaIfPresent \/ WaitForInputField \/ OpenAfterSetup
  \/ OpenExcept
  \/ CodexAfterFill \/ CodexAfterClick
  \/ OpenCreatedTask \/ WaitTick \/ WaitStopAppear
  \/ WaitStopHidden \/ WaitFinal
  \/ CodexExtractOutput \/ CodexTryCreatePr \/ CodexComplete
  \/ WebAfterFill \/ WebAfterClick \/ WebLoadingWait
  \/ MonitorWhile \/ MonitorObserve \/ MonitorChange \/ MonitorStable
  \/ MonitorSleep \/ WebAfterWait \/ WebReadOutput

\* every engine call returns or times out: the call in progress is not
\* suspended for ever
SpecFair == Spec /\ WF_vars(AgentSteps)

(***************************************************************************)
(* open_coding_interface called once on a new agent: what the agent holds  *)
(* when the call has returned, the call has made.                          *)
(***************************************************************************)
FirstOpen == ret.call = "none" /\ OpenCodingInterface

InitOpen ==
  /\ kind \in Kinds
  /\ loading_selector \in (IF kind = "codex" THEN {TRUE} ELSE BOOLEAN)
  /\ m = MNone
  /\ botright_client = FALSE
  /\ browser = FALSE
  /\ page = FALSE
  /\ open_pages = 0
  /\ is_browser_ready = FALSE
  /\ repo_url \in RepoUrls
  /\ authenticated = FALSE
  /\ workspaceSelected = FALSE
  /\ pc = "idle"
  /\ r = RIdle
  /\ o = ONone
  /\ w = WNone
  /\ stop_visible = FALSE
  /\ ret = NoRet
  /\ a = ANone
  /\ e = ENone

NextOpen ==
  \/ FirstOpen \/ OpenAcquire \/ OpenAfterNavigate \/ Robust
  \/ Authentication \/ AuthReturn \/ Environments \/ EnvsReturn
  \/ SolveCaptchaIfPresent \/ WaitForInputField \/ OpenAfterSetup
  \/ OpenExcept

SpecOpen == InitOpen /\ [][NextOpen]_vars

(***************************************************************************)
(* The _robust_* methods called directly, on an agent whose page is open   *)
(* or not.                                                                 *)
(***************************************************************************)
InitRobust ==
  /\ kind \in Kinds
  /\ loading_selector \in (IF kind = "codex" THEN {TRUE} ELSE BOOLEAN)
  /\ m = MNone
  /\ page \in BOOLEAN
  /\ open_pages = (IF page THEN 1 ELSE 0)
  /\ browser = page
  /\ botright_client = page
  /\ is_browser_ready = FALSE
  /\ repo_url = <<>>
  /\ authenticated = FALSE
  /\ workspaceSelected = FALSE
  /\ pc = "idle"
  /\ r = RIdle
  /\ o = ONone
  /\ w = WNone
  /\ stop_visible = FALSE
  /\ ret = NoRet
  /\ a = ANone
  /\ e = ENone

NextRobust == Robust \/ DirectCall \/ DirectReturn

SpecRobust == InitRobust /\ [][NextRobust]_vars

(***************************************************************************)
(* _handle_authentication called directly on an OpenAICodexAgent.          *)
(***************************************************************************)
AuthCall ==
  /\ pc = "idle"
  /\ pc' = "direct_auth"
  /\ a' = ACall
  /\ UNCHANGED <<kind, loading_selector, fieldVars, repo_url, sessionVars, r,
                 o, waitVars, ret, e>>

AuthDirectReturn ==
  /\ pc = "direct_auth" /\ a.pc = "done"
  /\ pc' = "idle"
  /\ a' = ANone
  /\ UNCHANGED <<kind, loading_selector, fieldVars, repo_url, sessionVars, r,
                 o, waitVars, ret, e>>

InitAuth ==
  /\ kind = "codex"
  /\ loading_selector = TRUE
  /\ m = MNone
  /\ page = TRUE
  /\ open_pages = (IF page THEN 1 ELSE 0)
  /\ browser = page
  /\ botright_client = page
  /\ is_browser_ready = FALSE
  /\ repo_url = <<>>
  /\ authenticated = FALSE
  /\ workspaceSelected = FALSE
  /\ pc = "idle"
  /\ r = RIdle
  /\ o = ONone
  /\ w = WNone
  /\ stop_visible = FALSE
  /\ ret = NoRet
  /\ a = ANone
  /\ e = ENone

NextAuth ==
  RobustClick \/ RobustFill \/ Authentication \/ AuthCall \/ AuthDirectReturn

SpecAuth == InitAuth /\ [][NextAuth]_vars

\* every step of the call is taken in the end: the single control flow is
\* not suspended for ever
SpecAuthFair ==
  SpecAuth /\ WF_vars(RobustClick \/ RobustFill \/ Authentication)

(***************************************************************************)
(* _handle_environments_page called directly on an OpenAICodexAgent whose  *)
(* page is open, with any repository context.                              *)
(***************************************************************************)
EnvsCall ==
  /\ pc = "idle"
  /\ pc' = "direct_envs"
  /\ e' = ECall
  /\ UNCHANGED <<kind, loading_selector, fieldVars, repo_url, sessionVars, r,
                 o, waitVars, ret, a>>

EnvsDirectReturn ==
  /\ pc = "direct_envs" /\ e.pc = "done"
  /\ pc' = "idle"
  /\ e' = ENone
  /\ workspaceSelected' = e.selected
  /\ UNCHANGED <<kind, loading_selector, fieldVars, repo_url, authenticated, r,
                 o, waitVars, ret, a>>

InitEnvs ==
  /\ kind = "codex"
  /\ loading_selector = TRUE
  /\ m = MNone
  /\ page = TRUE
  /\ open_pages = (IF page THEN 1 ELSE 0)
  /\ browser = TRUE
  /\ botright_client = TRUE
  /\ is_browser_ready = FALSE
  /\ repo_url \in RepoUrls
  /\ authenticated = TRUE
  /\ workspaceSelected = FALSE
  /\ pc = "idle"
  /\ r = RIdle
  /\ o = ONone
  /\ w = WNone
  /\ stop_visible = FALSE
  /\ ret = NoRet
  /\ a = ANone
  /\ e = ENone

NextEnvs == RobustClick \/ Environments \/ EnvsCall \/ EnvsDirectReturn

SpecEnvs == InitEnvs /\ [][NextEnvs]_vars

(***************************************************************************)
(* _extract_repo_name applied to repository URLs of every shape.           *)
(***************************************************************************)
Hosts == {<<"github.com">>, <<"not", "github.com">>, <<"gitlab.com">>}
Owners == {<<"acme">>, <<"not", "acme">>}
Repos == {<<"widget">>, <<"my-lib">>, <<"widget", ".", "my-lib">>}

\* https://<host>/<owner>/<repo> or git@<host>:<owner>/<repo>, with ".git"
\* and "/" at the end or not
UrlOf(scheme, host, owner, repo, dot_git, slash) ==
  (IF scheme = "https" THEN <<"https:", "/", "/">> \o host \o <<"/">>
                       ELSE <<"git@">> \o host \o <<":">>)
    \o owner \o <<"/">> \o repo
    \o (IF dot_git THEN <<".", "git">> ELSE <<>>)
    \o (IF slash THEN <<"/">> ELSE <<>>)

ShapedUrls ==
  {UrlOf(scheme, host, owner, repo, dot_git, slash) :
     scheme \in {"https", "ssh"}, host \in Hosts, owner \in Owners,
     repo \in Repos, dot_git \in BOOLEAN, slash \in BOOLEAN}

ExtractRepoNameCall ==
  /\ pc = "idle" /\ e.pc = "none"
  /\ e' = [ENone EXCEPT !.pc = "named",
                        !.repo_name = ExtractRepoName(repo_url)]
  /\ UNCHANGED <<envsFrame, r>>

InitName ==
  /\ kind = "codex"
  /\ loading_selector = TRUE
  /\ m = MNone
  /\ page = FALSE
  /\ open_pages = (IF page THEN 1 ELSE 0)
  /\ browser = FALSE
  /\ botright_client = FALSE
  /\ is_browser_ready = FALSE
  /\ repo_url \in ShapedUrls \cup {<<>>}
  /\ authenticated = FALSE
  /\ workspaceSelected = FALSE
  /\ pc = "idle"
  /\ r = RIdle
  /\ o = ONone
  /\ w = WNone
  /\ stop_visible = FALSE
  /\ ret = NoRet
  /\ a = ANone
  /\ e = ENone

NextName == ExtractRepoNameCall

SpecName == InitName /\ [][NextName]_vars

(***************************************************************************)
(* Claims                                                                  *)
(***************************************************************************)
RobustFailed == r.pc = "done" /\ r.op \in {"click", "fill"} /\ ~r.res

\* the retry limit n of the running call: the max_retries argument when it
\* is >= 1, RETRY_COUNT when it is left out
RetryLimit == IF r.arg >= 1 THEN r.arg ELSE RETRY_COUNT

\* C1 (as stated): a _robust_click_element or _robust_fill_input call with
\* retry limit n >= 1 whose every attempt fails returns failure after
\* exactly n attempts.
C1_ExactlyNAttempts == RobustFailed => r.tries = RetryLimit

\* C1 (amended): on an agent whose page is open, a _robust_click_element or
\* _robust_fill_input call with retry limit n >= 1 whose every attempt
\* fails returns failure after exactly n attempts.
C1_ExactlyNAttemptsWithPage == (RobustFailed /\ page) => r.tries = RetryLimit

C1_Witness ==
  RobustFailed /\ page /\ r.arg = 2 /\ r.tries = 2 /\ r.cause = "notactionable"

FillDone == r.pc = "done" /\ r.op = "fill"

\* success is returned only by an attempt whose read-back matched
C2_NoSuccessOnMismatch == (FillDone /\ r.res) => r.read = "match"

\* a matching read-back is followed by nothing but the return of success,
\* in the attempt that read it
C2_MatchReturnsAtOnce ==
  r.read = "match" => (r.pc \in {"compare", "done"} /\ (r.pc = "done" => r.res))

\* C2 (as stated): in _robust_fill_input a mismatched read-back is never
\* reported as success and is always followed by another fill attempt
\* before the operation returns failure (it never returns failure straight
\* after a mismatched attempt); a matching read-back returns success at once.
C2_MismatchAlwaysRetried ==
  /\ C2_NoSuccessOnMismatch
  /\ ~(FillDone /\ ~r.res /\ r.cause = "mismatch")
  /\ C2_MatchReturnsAtOnce

\* C2 (amended): in _robust_fill_input a mismatched read-back is never
\* reported as success; unless it was read in the last permitted attempt
\* (attempt n of retry limit n) it is followed by another fill attempt, and
\* after a mismatch in the last permitted attempt the operation returns
\* failure; a matching read-back returns success at once.
C2_MismatchRetriedUntilLimit ==
  /\ [](/\ C2_NoSuccessOnMismatch
        /\ (FillDone /\ ~r.res /\ r.cause = "mismatch") => r.tries = RetryLimit
        /\ C2_MatchReturnsAtOnce)
  /\ [][(r.pc = "except" /\ r.op = "fill" /\ r.cause = "mismatch")
          => IF r.tries < RetryLimit
               THEN r'.pc = "loop" /\ r'.attempt = r.attempt + 1
               ELSE r'.pc = "done" /\ ~r'.res]_vars

C2_Witness ==
  FillDone /\ ~r.res /\ r.cause = "mismatch" /\ r.tries = 3 /\ r.waits = 2

\* the prompt field holds the prompt (fill was called on it)
PromptFilled ==
  /\ pc = "cx_fill"
  /\ r.pc \in {"read", "compare"} \/ (r.pc = "done" /\ r.res)

\* the submit control was clicked after the prompt was filled
PromptSubmitted == pc = "cx_click" /\ r.pc = "done" /\ r.res

\* C3: in every reachable state the OpenAICodexAgent fills the prompt and
\* submits it only when the session is authenticated and a workspace is
\* selected, whatever order the caller makes its calls in.
C3_SubmitOnlyWhenSetUp ==
  (PromptFilled \/ PromptSubmitted) => (authenticated /\ workspaceSelected)

OpenReturned == pc = "idle" /\ ret.call = "open"

C5_MonitorTimeoutIsFatal ==
  /\ m.pc = "raised" => m.now - m.start_time >= AgentTimeoutSeconds
  /\ m.pc \in {"query", "change", "stable"}
       => m.now - m.start_time < AgentTimeoutSeconds
  /\ pc = "wb_read" => m.outcome # "timeout"
  /\ (kind = "web" /\ ret.call = "exec" /\ ret.completion = "timeout")
       => ~ret.success

C5_Witness ==
  /\ kind = "web" /\ pc = "idle" /\ ret.call = "exec"
  /\ ret.completion = "timeout" /\ ~ret.success

\* C6: _monitor_output_changes returns normally only at a poll where the
\* observed content has been the same for at least the quiet period (10 s)
\* and is at least 100 characters long.
C6_StableOnlyWhenQuietAndLong ==
  (m.pc = "returned" /\ m.outcome = "stable")
    => /\ m.current_content = m.prev
       /\ m.now - m.run_start >= STABLE_CONTENT_DURATION
       /\ ContentLen(m.current_content) >= OUTPUT_MIN_LENGTH

C6_Witness ==
  m.pc = "returned" /\ m.outcome = "stable" /\ m.run_start > m.start_time

\* C7: after every poll the quiet-period clock (last_change_time) is the
\* time of the latest poll that observed a content different from the one
\* observed before it.
C7_ChangeResetsQuietClock ==
  m.pc \in {"stable", "sleep", "while", "query", "returned", "raised"}
    => m.last_change_time = m.run_start

C7_Witness ==
  /\ m.pc = "stable" /\ m.last_change_time = m.now /\ m.now > m.start_time
  /\ m.current_content = "b101"

\* C8: when the stop button does not appear within the 30 s window,
\* _wait_for_completion goes straight to its end: it does not wait for the
\* button to become hidden and raises nothing (execute_prompt returns
\* success).
C8_FastPath ==
  /\ (w.pc \in {"hidden", "final", "done"} /\ ~w.appeared)
       => (w.pc # "hidden" /\ ~w.waited_hidden /\ w.outcome = "fast")
  /\ (kind = "codex" /\ ret.call = "exec" /\ ret.completion = "fast")
       => ret.success

C8_Witness == w.pc = "done" /\ ~w.appeared /\ w.outcome = "fast"

C10_IndicatorTimeoutFails ==
  (kind = "codex" /\ pc = "idle" /\ ret.call = "exec"
     /\ ret.completion = "timeout") => ~ret.success

\* C11: after close_coding_interface has returned, the page, the browser and
\* the automation client have all been closed and released (none is still
\* held by the agent), whatever happened before and also when closing one
\* of them raised.
C11_CloseReleasesAll ==
  (pc = "idle" /\ ret.call = "close")
    => (~page /\ ~browser /\ ~botright_client)

\* the environments table shows a row for the name of the repository
RowPresent == Matching(e.rows, e.repo_name) # {}

EnvsDone == e.pc = "done" /\ repo_url # <<>>

CreationSteps ==
  <<"wait_list", "click_candidate", "click_final_create", "wait_redirect",
    "click_use_this">>

IsPrefix(s, t) == Len(s) <= Len(t) /\ \A i \in 1..Len(s) : s[i] = t[i]

\* the creation flow with its steps in the order of steps, each made
CreationInOrder(steps) ==
  (EnvsDone /\ ~RowPresent /\ ~e.fault)
    => /\ IsPrefix(e.log, steps)
       /\ e.res <=> e.log = steps
       /\ e.res => (e.selected /\ authenticated)

C14_EmptyNameFailsFast ==
  (e.pc \notin {"none", "start"} /\ repo_url # <<>> /\ e.repo_name = <<>>)
    => /\ e.pc = "done" => ~e.res
       /\ \A i \in 1..Len(e.log) : e.log[i] \notin {"click_row", "click_candidate"}
       /\ ~e.selected

\* C15: _extract_repo_name maps https://github.com/<owner>/<repo> and
\* git@github.com:<owner>/<repo>, with ".git" and "/" at the end or not, to
\* <owner>/<repo>, and every URL of another host, and the empty string, to
\* the empty name.
C15_ExtractRepoName ==
  e.pc = "named" =>
    /\ repo_url = <<>> => e.repo_name = <<>>
    /\ \A scheme \in {"https", "ssh"}, host \in Hosts, owner \in Owners,
          repo \in Repos, dot_git \in BOOLEAN, slash \in BOOLEAN :
         repo_url = UrlOf(scheme, host, owner, repo, dot_git, slash)
           => e.repo_name = IF host = <<"github.com">>
                              THEN owner \o <<"/">> \o repo
                              ELSE <<>>

TokenLen(t) == IF t = " " THEN 1 ELSE ContentLen(t)

RECURSIVE TextLen(_)
\* len(text)
TextLen(s) == IF s = <<>> THEN 0 ELSE TokenLen(Head(s)) + TextLen(Tail(s))

\* OpenAICodexAgent.execute_prompt has returned
CodexReturned == kind = "codex" /\ pc = "idle" /\ ret.call = "exec"

\* the page offered a "View PR" link to a pull request of github.com
PrOffered == ret.page_pr = <<"github.com", "/pull/">>

C17_SuccessWhateverCaptured ==
  (CodexReturned /\ ret.submits = 1 /\ ret.task = "opened")
    => LET out == Strip(ret.page_output)
           n == Len(ret.content) IN
         /\ ret.success /\ ret.error = "none"
         /\ n = 1 + (IF out # <<>> THEN 4 ELSE 0) + (IF PrOffered THEN 2 ELSE 0)
         /\ out # <<>> => (ret.content[2] = "AGENT OUTPUT:" /\ ret.content[4] = out)
         /\ PrOffered => (ret.content[n - 1] = "PR created: "
                          /\ ret.content[n] = ret.page_pr)

C17_Witness ==
  /\ CodexReturned /\ ret.success /\ ret.swallowed
  /\ ret.page_output = <<>> /\ PrOffered
  /\ ret.content = <<"Task completed successfully with output and PR created.",
                     "PR created: ", <<"github.com", "/pull/">> >>

\* C18: within one call of execute_prompt the Code button is clicked with
\* success at most once; when _open_created_task finds no task link,
\* execute_prompt returns success=False ("Failed to open task") without
\* filling or clicking again and without beginning _wait_for_completion.
C18_NoResubmit ==
  /\ ret.submits <= 1
  /\ (kind = "codex" /\ ret.task = "absent")
       => /\ CodexReturned /\ ~ret.success
          /\ ret.error = "Failed to open task"
          /\ ret.submits = 1 /\ ~ret.monitored
          /\ w = WNone /\ r = RIdle

C18_Witness ==
  CodexReturned /\ ret.task = "absent" /\ ret.submits = 1 /\ ~ret.success

AuthHops == {<<>>, <<"login">>, <<"openai">>, <<"google">>,
             <<"login", "openai">>, <<"login", "google">>,
             <<"openai", "google">>, <<"login", "openai", "google">>}

\* C19: when the control of a hop (the login button, "Continue with
\* Google", a credential field of the provider or its submit button) could
\* not be acted on, _handle_authentication returns False, and no hop is
\* entered after it; the hops are entered in order, each at most once.
C19_HopFailureIsConclusive ==
  /\ (a.pc = "done" /\ a.failed # "none") => ~a.res
  /\ a.failed \in {"login", "openai"}
       => (a.pc = "done" /\ a.hops[Len(a.hops)] = a.failed)
  /\ a.hops \in AuthHops

\* C20: when _handle_authentication finds the page on the environments
\* page, it returns True at once: no hop is entered, no _robust_* call and
\* no wait is made and the credentials are not read.
C20_AlreadyAuthenticatedNoOp ==
  (a.pc \notin {"none", "start"} /\ a.entry_envs)
    => /\ a.pc = "done" /\ a.res
       /\ a.hops = <<>> /\ ~a.called /\ ~a.waited /\ ~a.creds
       /\ r = RIdle

C20_Witness ==
  a.pc = "done" /\ a.entry_envs /\ a.res /\ a.url = "create" /\ page

\* the positions of an attempt, the except handler included
InAttempt ==
  {"page", "wait", "query", "actionable", "scroll", "stable", "click",
   "focus", "select", "delete", "fill", "read", "compare", "goto", "except"}

\* C24 (as stated): in _robust_click_element, when element.click() fails on
\* a located, actionable element, the same attempt goes on to a
\* programmatic click ("js_click") on that element before the attempt
\* counts as failed: the step after the click is the return of True or the
\* programmatic click, never the except handler.
C24_FallbackBeforeFailure ==
  [][(r.op = "click" /\ r.pc = "click" /\ r'.pc # "click")
       => (r'.pc = "js_click" \/ (r'.pc = "done" /\ r'.res))]_vars

\* C28: in _robust_click_element the click is made only on an element that
\* the same attempt located and found visible and enabled, and the steps of
\* an attempt follow in the order locate (wait, query), actionability test,
\* scroll into view, stabilisation wait, click; an element found not
\* visible or not enabled is not clicked and its attempt fails.
C28_ClickOrder ==
  [][r.op = "click" =>
       /\ r.pc \in {"scroll", "stable", "click"} => r.act = "yes"
       /\ r.act = "no" => (r.pc \in {"except", "loop", "done"}
                           /\ (r.pc = "done" => ~r.res))
       /\ (r'.pc = "click" /\ r.pc # "click") => r.pc = "stable"
       /\ (r'.pc = "stable" /\ r.pc # "stable") => r.pc = "scroll"
       /\ (r'.pc = "scroll" /\ r.pc # "scroll") => r.pc = "actionable"
       /\ (r'.pc = "actionable" /\ r.pc # "actionable") => r.pc = "query"
       /\ (r'.pc = "query" /\ r.pc # "query") => r.pc = "wait"
       /\ (r'.pc = "done" /\ r'.res /\ r.pc # "done") => r.pc = "click"]_vars

C28_Witness ==
  r.op = "click" /\ r.pc = "except" /\ r.act = "no" /\ r.tries = 2 /\ page

\* C29: within an attempt of _robust_fill_input the steps follow in the
\* order locate and actionability test, focus, select the text, press
\* Delete, fill, read the value back, compare; the text is not set before
\* the field was cleared and True is returned only from the comparison of
\* the same attempt, on a match.
C29_FillOrder ==
  [][r.op = "fill" =>
       /\ r.pc \in {"focus", "select", "delete", "fill", "read", "compare"}
            => r.act = "yes"
       /\ (r'.pc = "focus" /\ r.pc # "focus") => r.pc = "actionable"
       /\ (r'.pc = "select" /\ r.pc # "select") => r.pc = "focus"
       /\ (r'.pc = "delete" /\ r.pc # "delete") => r.pc = "select"
       /\ (r'.pc = "fill" /\ r.pc # "fill") => r.pc = "delete"
       /\ (r'.pc = "read" /\ r.pc # "read") => r.pc = "fill"
       /\ (r'.pc = "compare" /\ r.pc # "compare") => r.pc = "read"
       /\ (r'.pc = "done" /\ r'.res /\ r.pc # "done")
            => (r.pc = "compare" /\ r.read = "match"
                /\ r'.tries = r.tries)]_vars

C29_Witness ==
  /\ r.op = "fill" /\ r.pc = "done" /\ r.res /\ r.read = "match"
  /\ r.tries = 2 /\ r.act = "yes"

\* C30: with a page, the retry delay of _robust_click_element,
\* _robust_fill_input and _robust_navigate is waited between two attempts
\* and only there: when n attempts have been made, n-1 delays have been
\* waited (n while the n+1st attempt is about to begin), none before the
\* first attempt and none after the last.
C30_DelaysBetweenAttempts ==
  (page /\ r.pc # "none")
    => /\ r.pc \in InAttempt => r.waits = r.tries - 1
       /\ r.pc = "loop" => r.waits = r.tries
       /\ (r.pc = "done" /\ r.tries > 0) => r.waits = r.tries - 1
       /\ r.tries = 0 => r.waits = 0

C30_Witness ==
  /\ page /\ r.pc = "done" /\ ~r.res /\ r.op = "nav"
  /\ r.tries = MaxRetriesArg /\ r.waits = MaxRetriesArg - 1

\* what holds of _wait_for_login_completion in every state
LoginPollInv ==
  /\ a.elapsed <= LOGIN_MAX_WAIT /\ a.elapsed % LOGIN_POLL_INTERVAL = 0
  /\ a.pc = "lc_loop" => (a.polled \in {"none", "google"} /\ ~a.expired)
  /\ a.polled \notin {"none", "google", "raise"}
       => (a.pc = "g_ret" /\ a.gres)
  /\ (a.pc = "g_ret" /\ a.polled = "google") => (~a.gres /\ a.expired)
  /\ (a.pc = "g_ret" /\ a.polled = "raise") => ~a.gres
  /\ a.expired => (a.pc = "g_ret" /\ ~a.gres /\ a.polled = "google")

\* C21: _wait_for_login_completion polls the page URL every 5 s and returns
\* True at the first poll whose URL is not the provider's; while every poll
\* reads the provider's URL it goes on, for 300 s (60 polls) at most, and
\* then returns False; the loop always comes to its end.
C21_LoginPollBounded ==
  /\ []LoginPollInv
  /\ [][(a'.expired /\ ~a.expired)
         => (a.pc = "lc_loop" /\ a.elapsed = LOGIN_MAX_WAIT)]_vars
  /\ ((a.pc = "lc_loop") ~> (a.pc = "g_ret"))

C21_Witness ==
  /\ a.pc = "g_ret" /\ ~a.gres /\ a.polled = "google" /\ a.expired

\* C22: when GOOGLE_EMAIL or GOOGLE_PASSWORD is not set, handle_google_login
\* returns False at once: no selector is queried, filled or clicked, no
\* wait and no poll is made, and the login is not attempted again.
C22_MissingCredentialsConclusive ==
  a.missing
    => /\ a.pc \in {"g_ret", "done"} /\ ~a.gres
       /\ a.pc = "done" => ~a.res
       /\ a.list = "none" /\ a.sel = 0 /\ a.elapsed = 0 /\ a.polled = "none"
       /\ ~a.expired
       /\ r = RIdle
       /\ a.hops = <<"google">> => (~a.called /\ ~a.waited)
       /\ a.hops \in AuthHops

C22_Witness ==
  /\ a.pc = "done" /\ a.missing /\ ~a.res /\ a.creds
  /\ a.hops = <<"google">> /\ ~a.waited

\* C23: _robust_fill_input_from_selectors (and _robust_click_from_selectors)
\* takes the selectors in list order, one after the other; the _robust_*
\* call on a selector runs to its end, with its own retries; True is
\* returned at the first call that succeeds, without going on to a later
\* selector; False is returned only after the last selector.
C23_SelectorsInOrder ==
  [][a.pc \in {"sel_query", "sel_call"} =>
       /\ a.sel \in 1..(SELECTOR_COUNT + 1)
       /\ a.pc = "sel_call"
            => /\ a.sel <= SELECTOR_COUNT
               /\ r.op = ListOp(a.list) /\ r.max_retries = RETRY_COUNT
               /\ (r.pc = "done" /\ ~r.res) => r.tries = RETRY_COUNT
       /\ \/ a' = a
          \/ /\ a.pc = "sel_query" /\ a.sel <= SELECTOR_COUNT
             /\ a'.pc = "sel_call" /\ a'.list = a.list /\ a'.sel = a.sel
          \/ /\ a'.pc = "sel_query" /\ a'.list = a.list
             /\ a'.sel = a.sel + 1 /\ a.sel <= SELECTOR_COUNT
             /\ a.pc = "sel_call" => (r.pc = "done" /\ ~r.res)
          \/ /\ a.pc = "sel_call" /\ r.pc = "done" /\ r.res
             /\ a' = AfterList(a, TRUE)
          \/ /\ a.pc = "sel_query" /\ a.sel = SELECTOR_COUNT + 1
             /\ a' = AfterList(a, FALSE)]_vars

C23_Witness ==
  /\ a.pc = "sel_call" /\ a.list = "email" /\ a.sel = SELECTOR_COUNT
  /\ r.pc = "done" /\ r.res /\ r.op = "fill"

\* C25 (as stated): execute_prompt always returns a result, and every
\* failure inside it (the prompt not filled, the submit control not
\* clicked, the task not found, the completion wait timed out, no page)
\* gives success=False with an error message that is not empty.
C25_FailureHasCause ==
  (pc = "idle" /\ ret.call = "exec")
    => /\ ~ret.success => ret.error \notin {"none", ""}
       /\ ret.task = "absent" => ~ret.success
       /\ ret.completion = "timeout" => ~ret.success
       /\ (kind = "codex" /\ ret.submits = 0) => ~ret.success

\* C27: solve_captcha_if_present raises nothing; when no solver solved a
\* captcha, WebAgent._setup_web_interface goes on to wait for the input
\* field as it does when one did, and the result of the setup is that of
\* the wait alone.
C27_CaptchaBestEffort ==
  /\ pc = "wb_input" => o.captcha # "none"
  /\ (kind = "web" /\ o.captcha # "none" /\ pc # "wb_input")
       => /\ o.input # "none"
          /\ o.setup = "ok" <=> o.input = "found"
  /\ (kind = "web" /\ OpenReturned /\ o.input = "found") => ret.success

C27_Witness ==
  /\ kind = "web" /\ OpenReturned /\ o.captcha = "failed"
  /\ o.input = "found" /\ ret.success /\ is_browser_ready

\* C26: when every engine call returns or times out, every call of
\* open_coding_interface and of execute_prompt returns in the end: no retry
\* loop, login poll, completion wait or content monitor runs for ever.
C26_CallsReturn == (pc # "idle") ~> (pc = "idle")

C26_Witness ==
  /\ kind = "codex" /\ pc = "idle" /\ ret.call = "exec"
  /\ ret.completion = "timeout" /\ ret.monitored

\* the positions of OpenAICodexAgent.execute_prompt, in program order
ExecOrder ==
  <<"cx_fill", "cx_click", "cx_task", "cx_wait", "cx_create_pr", "cx_pr_url">>

ExecPosition(l) == CHOOSE i \in 1..Len(ExecOrder) : ExecOrder[i] = l

InExec == \E i \in 1..Len(ExecOrder) : ExecOrder[i] = pc

\* C31: within one execute_prompt of OpenAICodexAgent the steps are taken
\* one after the other in program order (fill, submit, open the task, wait
\* for completion, extract the output, try to create the PR, extract the PR
\* link): a step begins when the one before it has returned, the retrying
\* call and the completion wait never run beside another step, and the
\* extraction and the PR steps begin only when the wait has returned.
C31_ProgramOrder ==
  /\ [](InExec =>
          /\ r.pc # "none" => pc \in {"cx_fill", "cx_click"}
          /\ pc = "cx_fill" => (r.op = "fill" /\ ret.submits = 0)
          /\ pc = "cx_click" => (r.op = "click" /\ ret.submits = 0)
          /\ w.pc \notin {"none", "done"} => pc = "cx_wait"
          /\ pc \in {"cx_fill", "cx_click", "cx_task"} => w.pc = "none"
          /\ pc \in {"cx_create_pr", "cx_pr_url"}
               => /\ w.pc = "done" /\ ret.monitored
                  /\ ret.submits = 1 /\ ret.task = "opened"
          /\ m.pc = "none" /\ a.pc = "none" /\ e.pc = "none")
  /\ [][(InExec /\ pc' # pc)
         => /\ pc' = "idle" \/ (InExec' /\ ExecPosition(pc') = ExecPosition(pc) + 1)
            /\ pc = "cx_fill" => (r.pc = "done" /\ (pc' = "cx_click" <=> r.res))
            /\ pc = "cx_click" => (r.pc = "done" /\ (pc' = "cx_task" <=> r.res))
            /\ pc = "cx_wait" => w.pc = "done"]_vars

C31_Witness ==
  /\ pc = "cx_pr_url" /\ w.pc = "done" /\ w.outcome = "hidden"
  /\ ret.page_output # <<>> /\ ret.submits = 1

\* C32 (as stated): in every state at most one page is open for the agent,
\* and a page that is open is the one self.page refers to: whatever the
\* sequence of open_coding_interface and close_coding_interface calls, no
\* page is left open beside it.
C32_AtMostOneLivePage ==
  /\ open_pages <= 1
  /\ open_pages = 1 => page

\* open_coding_interface is past "self.page = await self.browser.new_page()"
OpenHasNewPage ==
  pc \in {"open_nav", "cx_auth", "cx_envs", "wb_captcha", "wb_input",
          "open_setup"}

\* C33 (as stated): while _is_browser_ready is true there is a page, and it
\* is the page on which the latest open_coding_interface navigated and set
\* up with success; the flag is never true after the latest
\* open_coding_interface returned False.
C33_ReadyMeansLastOpenSucceeded ==
  /\ is_browser_ready => page
  /\ ~(is_browser_ready /\ OpenHasNewPage)
  /\ (OpenReturned /\ ~ret.success) => ~is_browser_ready

\* C34 (as stated): when open_coding_interface returns False (navigation
\* failed, setup failed or an exception was raised), the page, the browser
\* and the client that the call made have been released.  On a new agent
\* the call makes all three, so none is left when it has returned False.
C34_FailedOpenReleases ==
  (OpenReturned /\ ~ret.success)
    => /\ ~page /\ open_pages = 0
       /\ ~browser
       /\ ~botright_client

\* C35: when no repository URL is set, _handle_environments_page returns
\* True at once: no row or button is looked for or clicked and no workspace
\* is selected or created; with authentication passed, setup succeeds and
\* open_coding_interface returns True with the ready flag set and no
\* workspace selected.
C35_NoRepositorySkipsWorkspace ==
  /\ (repo_url = <<>> /\ e.pc # "none")
       => /\ e.pc \in {"start", "done"}
          /\ e.log = <<>> /\ ~e.selected /\ e.target = <<>>
          /\ e.pc = "done" => e.res
          /\ r = RIdle
  /\ (kind = "codex" /\ OpenReturned /\ repo_url = <<>> /\ o.auth = "ok")
       => /\ o.envs = "skipped"
          /\ ret.success /\ is_browser_ready /\ ~workspaceSelected

C35_Witness ==
  /\ kind = "codex" /\ OpenReturned /\ repo_url = <<>>
  /\ o.auth = "ok" /\ o.envs = "skipped"
  /\ ret.success /\ is_browser_ready /\ ~workspaceSelected

\* the page interaction was made in the running _handle_environments_page
Logged(event) == \E i \in 1..Len(e.log) : e.log[i] = event

\* C36 (as stated): once _find_and_select_existing_environment has clicked
\* a matching row, the creation branch is not entered: the create button is
\* not clicked and no step of _create_new_environment is made, also when
\* the "Use this" click that follows fails.
C36_NoCreateAfterRowClick ==
  Logged("click_row")
    => /\ e.pc \notin {"create_click", "c_wait_list", "c_query", "c_final",
                       "c_redirect", "c_use_click"}
       /\ ~Logged("click_create") /\ ~Logged("wait_list")

\* C37 (as stated): _create_new_environment returns True only when the
\* repository candidate and the final create control were both clicked, and
\* when one of these clicks was not made no later step of the creation is
\* taken.
C37_CreatedOnlyIfClicked ==
  /\ (e.pc = "done" /\ e.res /\ Logged("wait_list"))
       => (Logged("click_candidate") /\ Logged("click_final_create"))
  /\ e.pc \in {"c_final", "c_redirect", "c_use_click"}
       => Logged("click_candidate")
  /\ e.pc \in {"c_redirect", "c_use_click"} => Logged("click_final_create")

\* _monitor_output_changes is running
Monitoring == m.pc \in {"while", "query", "change", "stable", "sleep"}

\* C38: with a loading selector (and a page), _wait_for_web_completion
\* monitors the content only when the wait for the hidden indicator raised;
\* when the indicator is hidden or absent the call returns at once, no
\* content having been read or measured; and an exception that is not the
\* timeout exception is swallowed: the call returns as if complete and
\* execute_prompt goes on to read the output.
C38_MonitorOnlyAfterIndicatorFails ==
  /\ []((Monitoring /\ loading_selector /\ page)
          => m.indicator \in {"timeout", "error"})
  /\ [](m.indicator = "hidden"
          => /\ m.pc = "returned" /\ m.outcome = "indicator"
             /\ m.now = 0 /\ m.current_content = "" /\ m.last_content = "")
  /\ [][(pc = "wb_wait" /\ pc' # pc)
         => IF m.pc = "raised"
              THEN pc' = "idle" /\ ~ret'.success
              ELSE pc' = "wb_read" /\ m'.outcome = m.outcome]_vars

C38_Witness ==
  /\ pc = "wb_read" /\ m.outcome = "indicator" /\ loading_selector

\* C39 (as stated): _wait_for_web_completion declares completion or raises
\* its timeout within the configured agent timeout and one poll interval
\* (with the overrun of one wait), also when the wait for the loading
\* indicator timed out and the content is monitored after it.
C39_WithinAgentTimeout ==
  m.now <= AgentTimeoutSeconds + CHECK_INTERVAL + MaxJitter

\* C40: on an agent with no page (never opened, or closed),
\* _robust_click_element and _robust_fill_input return False after exactly
\* one attempt and no retry delay, whatever the retry limit, and
\* _robust_navigate returns False with no attempt made; the "Page not
\* available" exception of the attempt is caught by the handler of the
\* same call, which then returns.
C40_NoPageFailsAtOnce ==
  (~page /\ r.pc # "none")
    => /\ r.pc \in {"entry", "loop", "page", "except", "done"}
       /\ r.waits = 0
       /\ r.op = "nav" => (r.pc \in {"entry", "done"} /\ r.tries = 0)
       /\ r.op \in {"click", "fill"}
            => /\ r.tries <= 1
               /\ r.pc = "done" => r.tries = 1
               /\ r.pc = "except" => r.cause = "nopage"
       /\ r.pc = "done" => ~r.res

C40_Witness ==
  /\ ~page /\ r.pc = "done" /\ ~r.res /\ r.op = "fill"
  /\ r.max_retries = MaxRetriesArg /\ r.tries = 1 /\ r.waits = 0
  /\ r.cause = "nopage"
====
